---- MODULE Spec2Model ----
(***************************************************************************)
(* A model of the HuggingPlace SDK trace sender (trace/sender.js), of the   *)
(* tracing wrappers that feed it (trace/traceStep.js, traceLLM.js and      *)
(* HuggingPlace.traceStep / HuggingPlace.sendTrace), and of the client     *)
(* class HuggingPlace (huggingplace.js) with its configuration, its HTTP   *)
(* client and its log() path.                                              *)
(*                                                                         *)
(* Time is kept in milliseconds.  Pending timers (the idle flush timer and *)
(* the backoff waits) record how long they have waited; Tick lets TickMs   *)
(* milliseconds pass.  A timer may fire once it has waited its delay.      *)
(***************************************************************************)
EXTENDS Integers, Sequences, FiniteSets, TLC

VARIABLES
    cfg,          \* senderConfig of createSender
    traceBatch,   \* let traceBatch = []      (the live batch)
    batchTimeout, \* let batchTimeout = null  (the idle timer handle)
    sends,        \* the sendTraceWithRetry / sendBatchWithRetry promises not yet
                  \* settled towards their caller, oldest first
    steps,        \* the traceStep invocations that have not returned yet, oldest first
    nCalls,       \* number of sender.sendTrace calls made so far
    nSteps,       \* number of traceStep invocations made so far
    sinceFlush,   \* history: the records accepted into the batch since the last flush
    firstAge,     \* history: ms since the first record of sinceFlush was accepted
    escaped,      \* history: the kinds of error that reached a caller of the SDK
    hp,           \* the HuggingPlace instances constructed so far
    pool,         \* the senders made by createSender at module and instance level
    requests,     \* the HTTP POSTs issued by instances and pool senders, oldest first
    logCall,      \* the log() call in progress, or the last one made
    proc,         \* the Node process: its state and what its callers were thrown
    nOps,         \* number of calls made on the instances and the default sender
    session,      \* the Session started on the instance, if any
    timed         \* the logWithTiming call in progress, or the last one made

\* The state of one sender under test with its tracing wrappers, and the state
\* of the client (HuggingPlace instances, their senders, the process).
senderVars == <<cfg, traceBatch, batchTimeout, sends, steps, nCalls, nSteps,
                sinceFlush, firstAge, escaped>>
clientVars == <<hp, pool, requests, logCall, proc, nOps, session, timed>>

vars == <<cfg, traceBatch, batchTimeout, sends, steps, nCalls, nSteps,
          sinceFlush, firstAge, escaped, hp, pool, requests, logCall, proc, nOps,
          session, timed>>

(***************************************************************************)
(* Bounds of the model.                                                    *)
(***************************************************************************)
MaxCalls == 2        \* sender.sendTrace calls per behaviour
MaxSteps == 2        \* traceStep invocations per behaviour
TickMs == 1000       \* the time that passes in one Tick

\* batchSize ranges over 1..MaxBatchSize: one more than the calls, so that a
\* batch can also stay short of the threshold
MaxBatchSize == MaxCalls + 1

(***************************************************************************)
(* Program constants.                                                      *)
(***************************************************************************)
HTTP_CREATED == 201
DefaultMaxRetries == 3
DefaultRetryDelay == 1000
DefaultTimeout == 10000
DefaultBatchTimeoutMs == 30000

Null == "null"          \* JavaScript null / undefined
Falsy(v) == v \in {Null, ""}

RECURSIVE Pow2(_)
Pow2(n) == IF n = 0 THEN 1 ELSE 2 * Pow2(n - 1)

Min(a, b) == IF a < b THEN a ELSE b

RetryDelays == {DefaultRetryDelay, 2 * DefaultRetryDelay}
FewRetries == {0, 1}
BatchTimeouts == {2 * TickMs, 3 * TickMs}

\* The configurations createSender is given.
SenderConfigs ==
    [batchSize : 1..MaxBatchSize, batchTimeout : BatchTimeouts,
     maxRetries : FewRetries, retryDelay : RetryDelays, silent : BOOLEAN]

\* The configurations under which the retry policy is examined: up to the
\* default number of retries with the default retryDelay, up to two retries
\* with the doubled one.
RetryConfigs ==
    {c \in [batchSize : {1, 2}, batchTimeout : {2 * TickMs},
            maxRetries : 0..DefaultMaxRetries, retryDelay : RetryDelays,
            silent : BOOLEAN] :
        c.retryDelay # DefaultRetryDelay => c.maxRetries < DefaultMaxRetries}

(***************************************************************************)
(* Trace records.  id is the position of the call that submitted it.       *)
(***************************************************************************)
Trace(id, t, s, o, st, err) ==
    [id |-> id, traceId |-> t, spanId |-> s, operation |-> o, status |-> st,
     error |-> err]

NoTrace == [id |-> 0, traceId |-> Null, spanId |-> Null, operation |-> Null,
            status |-> Null, error |-> Null]

\* What a caller may hand to sender.sendTrace: a complete record, a record
\* with one required field missing or empty, or no object at all.
TraceInputs(id) ==
    {Trace(id, "x", "x", "x", "OK", Null)}
    \cup {Trace(id, v, "x", "x", "OK", Null) : v \in {"", Null}}
    \cup {Trace(id, "x", v, "x", "OK", Null) : v \in {"", Null}}
    \cup {Trace(id, "x", "x", v, "OK", Null) : v \in {"", Null}}
    \cup {NoTrace}

\* A variant that rejects absent fields only and lets empty strings through.
MissingRequiredIgnoresEmpty(trace) ==
    trace.traceId = Null \/ trace.spanId = Null \/ trace.operation = Null

\* sendTrace: if (!trace.traceId || !trace.spanId || !trace.operation) return;
MissingRequired(trace) ==
    Falsy(trace.traceId) \/ Falsy(trace.spanId) \/ Falsy(trace.operation)


(***************************************************************************)
(* Transport: sendTraceWithRetry and sendBatchWithRetry.                   *)
(***************************************************************************)
\* What one axios.post can end with: an HTTP response (a status and a parsed
\* body, which may be absent) or a rejection without a response.
HttpOutcomes ==
    [kind : {"response"}, status : {200, HTTP_CREATED, 500}, data : {"obj", Null}]
    \cup [kind : {"error"}, status : {0}, data : {"network", "timeout"}]

\* A send just started by sendTraceWithRetry(trace) or sendBatchWithRetry(batch):
\* the first axios.post is under way.  awaiter is -1 when nobody awaits the
\* send (flushBatch), 0 when a direct sendTrace call awaits it and k when the
\* sendTrace call of traceStep invocation k does.  The last four fields are
\* history: what started the send ("call", or for a flush "size", "timer" or
\* "manual"), the number of POSTs made when the first HTTP 201 arrived, and
\* the backoff delays scheduled and waited so far.
\* The request timeout the POSTs of a send are made with: senderConfig.timeout
\* for a single record, senderConfig.batchTimeoutMs for a batch; the sender
\* under test leaves both at their defaults.
RequestTimeout(endpoint) ==
    IF endpoint = "batch" THEN DefaultBatchTimeoutMs ELSE DefaultTimeout

NewSend(endpoint, payload, awaiter, cause) ==
    [endpoint |-> endpoint, timeout |-> RequestTimeout(endpoint),
     payload |-> payload, retries |-> 0,
     state |-> "posting", delay |-> 0, waited |-> 0, posts |-> 1,
     result |-> "pending", awaiter |-> awaiter,
     cause |-> cause,
     postsAt201 |-> 0, delays |-> <<>>, waits |-> <<>>]

\* The try block: "return" when the response is returned to the caller,
\* "throw" when control passes to the catch block.  With logging enabled the
\* success message reads response.data.traceId (response.data.count for a
\* batch), which throws a TypeError when the body is absent.
TryBlock(resp) ==
    IF resp.kind = "response" /\ resp.status = HTTP_CREATED
    THEN IF ~cfg.silent /\ resp.data = Null THEN "throw" ELSE "return"
    ELSE "throw"

\* A variant with a linear instead of an exponential backoff.
BackoffDelayLinear(retries) == cfg.retryDelay * (retries + 1)

\* const delay = senderConfig.retryDelay * Math.pow(2, retries)
BackoffDelay(retries) == cfg.retryDelay * Pow2(retries)

\* A variant that retries once more than maxRetries.
MayRetryOnceMore(retries) == retries <= cfg.maxRetries

\* if (retries < senderConfig.maxRetries)
MayRetry(retries) == retries < cfg.maxRetries

\* Max retries reached: return null
Exhausted(s) == [s EXCEPT !.state = "dropped", !.result = Null]

\* The catch block of a send whose attempt number s.retries failed.
CatchBlock(s) ==
    IF MayRetry(s.retries)
    THEN [s EXCEPT !.state = "backoff", !.delay = BackoffDelay(s.retries),
                   !.waited = 0, !.delays = Append(@, BackoffDelay(s.retries))]
    ELSE Exhausted(s)

\* The try block of sendBatchWithRetry; its success message reads
\* response.data.count.
BatchTryBlock(resp) ==
    IF resp.kind = "response" /\ resp.status = HTTP_CREATED
    THEN IF ~cfg.silent /\ resp.data = Null THEN "throw" ELSE "return"
    ELSE "throw"

\* A variant of the batch transport that retries once more than maxRetries.
BatchMayRetryOnceMore(retries) == retries <= cfg.maxRetries

\* sendBatchWithRetry: if (retries < senderConfig.maxRetries)
BatchMayRetry(retries) == retries < cfg.maxRetries

\* sendBatchWithRetry: const delay = senderConfig.retryDelay * Math.pow(2, retries)
BatchBackoffDelay(retries) == cfg.retryDelay * Pow2(retries)

\* The catch block of sendBatchWithRetry for a send whose attempt number
\* s.retries failed.
BatchCatchBlock(s) ==
    IF BatchMayRetry(s.retries)
    THEN [s EXCEPT !.state = "backoff", !.delay = BatchBackoffDelay(s.retries),
                   !.waited = 0, !.delays = Append(@, BatchBackoffDelay(s.retries))]
    ELSE [s EXCEPT !.state = "dropped", !.result = Null]

Terminal == {"success", "dropped", "threw"}

\* The send after its pending axios.post ended with resp.
AfterResponse(s, resp) ==
    LET seen == [s EXCEPT
                   !.postsAt201 = IF resp.kind = "response"
                                     /\ resp.status = HTTP_CREATED /\ @ = 0
                                  THEN s.posts ELSE @]
    IN  IF s.endpoint = "batch"
        THEN IF BatchTryBlock(resp) = "return"
             THEN [seen EXCEPT !.state = "success", !.result = resp.data]
             ELSE BatchCatchBlock(seen)
        ELSE IF TryBlock(resp) = "return"
             THEN [seen EXCEPT !.state = "success", !.result = resp.data]
             ELSE CatchBlock(seen)

\* await new Promise(resolve => setTimeout(resolve, delay)) is over
BackoffOver(s) == s.waited >= s.delay

\* return sendTraceWithRetry(traceData, retries + 1): the next axios.post.
AfterBackoff(s) ==
    [s EXCEPT !.state = "posting", !.retries = @ + 1, !.posts = @ + 1,
              !.waits = Append(@, s.waited)]

\* The sequence q without its element number i.
Without(q, i) == [j \in 1..(Len(q) - 1) |-> IF j < i THEN q[j] ELSE q[j + 1]]

(***************************************************************************)
(* Buffer and flush trigger: flushBatch and sendTrace.                     *)
(***************************************************************************)
\* The variable batchTimeout and the timeouts of the sender in the event
\* loop: handle tells whether the variable holds a timer handle, armed whether
\* the timer of that handle is still to fire, pending how many timeouts of
\* the sender are scheduled and neither fired nor cleared.
NoTimer ==
    [handle |-> FALSE, armed |-> FALSE, delay |-> 0, waited |-> 0, pending |-> 0]

\* A variant that arms the idle timer with the retry delay.
SetTimerWithRetryDelay ==
    [handle |-> TRUE, armed |-> TRUE, delay |-> cfg.retryDelay, waited |-> 0,
     pending |-> 1]

\* A variant that leaves the idle timer cleared when the batch is not full.
SetTimerUnarmed ==
    [handle |-> TRUE, armed |-> FALSE, delay |-> cfg.batchTimeout, waited |-> 0,
     pending |-> 0]

\* batchTimeout = setTimeout(flushBatch, senderConfig.batchTimeout)
SetTimer ==
    [handle |-> TRUE, armed |-> TRUE, delay |-> cfg.batchTimeout, waited |-> 0,
     pending |-> 1]

\* The variable after the assignment of the new timer, t being its value
\* before: the timeouts still scheduled stay scheduled.
Assigned(t) == [SetTimer EXCEPT !.pending = t.pending + @]

\* A variant that does not cancel the timer.
ClearTimerForgotten(t) == t

\* if (batchTimeout) clearTimeout(batchTimeout): the handle stays in the variable
ClearTimer(t) ==
    IF t.handle
    THEN [t EXCEPT !.armed = FALSE, !.waited = 0,
                   !.pending = IF t.armed THEN @ - 1 ELSE @]
    ELSE t

\* The timer has run for its delay: the event loop may call flushBatch.
TimerDue(t) == t.armed /\ t.waited >= t.delay

\* A variant that hands over the batch without its oldest record.
FlushBatchSkipsFirst(tb) ==
    IF Len(tb) > 0
    THEN [live |-> <<>>, detached |-> Tail(tb), sent |-> TRUE]
    ELSE [live |-> tb, detached |-> <<>>, sent |-> FALSE]

\* A variant that flushes whatever the length of the batch.
FlushBatchEvenEmpty(tb) == [live |-> <<>>, detached |-> tb, sent |-> TRUE]

\* A variant that hands the batch over without detaching it from the live
\* buffer.
FlushBatchKeepsLive(tb) == [live |-> tb, detached |-> tb, sent |-> Len(tb) > 0]

\* flushBatch on the live batch tb: the live batch it leaves, whether it
\* calls sendBatchWithRetry and the batch it hands to it.
FlushBatch(tb) ==
    IF Len(tb) > 0
    THEN [live |-> <<>>, detached |-> tb, sent |-> TRUE]
    ELSE [live |-> tb, detached |-> <<>>, sent |-> FALSE]

\* A variant that flushes one record late.
BatchFullOffByOne(tb) == Len(tb) > cfg.batchSize

\* if (traceBatch.length >= senderConfig.batchSize)
BatchFull(tb) == Len(tb) >= cfg.batchSize

\* A variant that also batches when batchSize is 1.
BatchingAtOne == cfg.batchSize >= 1

\* if (senderConfig.batchSize > 1)
Batching == cfg.batchSize > 1

\* The state a flushBatch call leaves, for the live batch tb and timer t;
\* accepted is the history of records accepted since the last flush, and
\* cause names what called flushBatch.
Flushed(tb, t, cause, accepted) ==
    LET f == FlushBatch(tb)
    IN  /\ traceBatch' = f.live
        /\ batchTimeout' = t
        /\ IF f.sent
           THEN /\ sends' = Append(sends, NewSend("batch", f.detached, -1, cause))
                /\ sinceFlush' = <<>>
                /\ firstAge' = 0
           ELSE /\ sends' = sends
                /\ sinceFlush' = accepted
                /\ firstAge' = firstAge

\* sender.sendTrace(trace), run up to its first await or its return.
SendTrace(trace, awaiter) ==
    /\ nCalls' = nCalls + 1
    /\ IF trace = NoTrace
       THEN \* trace.traceId throws a TypeError, caught by sendTrace's catch
            UNCHANGED <<traceBatch, batchTimeout, sends, sinceFlush, firstAge>>
       ELSE IF MissingRequired(trace)
       THEN UNCHANGED <<traceBatch, batchTimeout, sends, sinceFlush, firstAge>>
       ELSE IF Batching
       THEN LET pushed == Append(traceBatch, trace)
                accepted == Append(sinceFlush, trace)
                cleared == ClearTimer(batchTimeout)
            IN  IF BatchFull(pushed)
                THEN Flushed(pushed, cleared, "size", accepted)
                ELSE /\ traceBatch' = pushed
                     /\ batchTimeout' = Assigned(cleared)
                     /\ sinceFlush' = accepted
                     /\ firstAge' = IF sinceFlush = <<>> THEN 0 ELSE firstAge
                     /\ sends' = sends
       ELSE /\ sends' = Append(sends, NewSend("single", <<trace>>, awaiter, "call"))
            /\ UNCHANGED <<traceBatch, batchTimeout, sinceFlush, firstAge>>

\* A variant that reports a dropped record to the caller as an error.
SendTraceAwaitRethrows(state) == IF state = "dropped" THEN "rejected" ELSE "returned"

\* How the sendTrace call that awaits a send ends once the send has ended:
\* sendTrace awaits sendTraceWithRetry inside its own try / catch and returns
\* undefined whatever the outcome.
SendTraceAwait(state) == "returned"

(***************************************************************************)
(* Actions of the sender.                                                  *)
(***************************************************************************)
\* No promise continuation is pending.  Continuations are microtasks: the
\* event loop runs them all before it takes the next timer, response or call.
Quiet ==
    /\ \A i \in DOMAIN sends : sends[i].state \notin Terminal
    /\ \A j \in DOMAIN steps : steps[j].pc # "done"

\* A caller submits a record to the sender directly.
SendTraceCall ==
    /\ Quiet
    /\ nCalls < MaxCalls
    /\ \E trace \in TraceInputs(nCalls + 1) : SendTrace(trace, 0)
    /\ UNCHANGED <<clientVars, cfg, steps, nSteps, escaped>>

\* A caller (or a shutdown hook) calls sender.flushBatch().
FlushBatchCall ==
    /\ Quiet
    /\ Flushed(traceBatch, batchTimeout, "manual", sinceFlush)
    /\ UNCHANGED <<clientVars, cfg, steps, nCalls, nSteps, escaped>>

\* The idle timer fires: flushBatch runs.
TimerFires ==
    /\ Quiet
    /\ TimerDue(batchTimeout)
    /\ Flushed(traceBatch, [batchTimeout EXCEPT !.armed = FALSE, !.pending = @ - 1],
               "timer", sinceFlush)
    /\ UNCHANGED <<clientVars, cfg, steps, nCalls, nSteps, escaped>>

\* TickMs milliseconds pass.
TimerAfterTick(t) ==
    IF t.armed THEN [t EXCEPT !.waited = Min(t.delay, @ + TickMs)] ELSE t

SendAfterTick(s) ==
    IF s.state = "backoff" THEN [s EXCEPT !.waited = Min(s.delay, @ + TickMs)] ELSE s

Tick ==
    /\ Quiet
    /\ batchTimeout' = TimerAfterTick(batchTimeout)
    /\ sends' = [i \in DOMAIN sends |-> SendAfterTick(sends[i])]
    /\ firstAge' = IF sinceFlush # <<>>
                   THEN Min(cfg.batchTimeout, firstAge + TickMs) ELSE firstAge
    /\ UNCHANGED <<clientVars, cfg, traceBatch, steps, nCalls, nSteps, sinceFlush,
                   escaped>>

\* The pending axios.post of send i ends.
HttpResponse(i) ==
    /\ Quiet
    /\ sends[i].state = "posting"
    /\ \E resp \in HttpOutcomes :
          sends' = [sends EXCEPT ![i] = AfterResponse(sends[i], resp)]
    /\ UNCHANGED <<clientVars, cfg, traceBatch, batchTimeout, steps, nCalls, nSteps,
                   sinceFlush, firstAge, escaped>>

\* The backoff wait of send i is over: the next attempt starts.
RetryFires(i) ==
    /\ Quiet
    /\ sends[i].state = "backoff"
    /\ BackoffOver(sends[i])
    /\ sends' = [sends EXCEPT ![i] = AfterBackoff(sends[i])]
    /\ UNCHANGED <<clientVars, cfg, traceBatch, batchTimeout, steps, nCalls, nSteps,
                   sinceFlush, firstAge, escaped>>

Responds == \E i \in DOMAIN sends : HttpResponse(i)

Retries == \E i \in DOMAIN sends : RetryFires(i)

(***************************************************************************)
(* The tracing wrappers: traceStep, traceLLMWithEvaluation and             *)
(* traceMultiStepFlow, called through a HuggingPlace instance, whose       *)
(* sendTrace hands the record to the instance's sender.                    *)
(***************************************************************************)
FuncOutcomes == {"returns", "throwsError", "throwsString", "throwsNothing"}

\* A traceStep invocation whose func() is running.  left is the number of
\* steps of the enclosing traceMultiStepFlow still to run after this one.
\* History: func is how the traced function ended, handed counts the records
\* passed to sendTrace, trace is the last of them and send is how the send
\* that sendTrace awaited ended.
NewStep(id, wrapper, stepName, status, left) ==
    [id |-> id, wrapper |-> wrapper, stepName |-> stepName, status |-> status,
     left |-> left, pc |-> "func", func |-> "pending", error |-> Null,
     result |-> "pending", handed |-> 0, trace |-> NoTrace, send |-> "none",
     outcome |-> "pending", value |-> "pending"]

\* try { result = await func() } catch (err) { status = "ERROR"; error = err;
\* result = { error: err.message } }.  raised is the error the catch block
\* itself throws: err.message of a null or undefined err is a TypeError.
FuncResult(st, outcome) ==
    CASE outcome = "returns" ->
            [st EXCEPT !.func = outcome, !.result = "result"]
      [] outcome = "throwsError" ->
            [st EXCEPT !.func = outcome, !.status = "ERROR", !.error = "msg",
                       !.result = "errorObject"]
      [] outcome = "throwsString" ->
            [st EXCEPT !.func = outcome, !.status = "ERROR",
                       !.result = "errorObject"]
      [] outcome = "throwsNothing" ->
            [st EXCEPT !.func = outcome, !.status = "ERROR", !.pc = "done",
                       !.outcome = "rejected", !.value = "TypeError"]

\* The record traceStep passes to sendTrace.  HuggingPlace.traceStep supplies
\* traceId (options.traceId || generateId()); spanId is generateId().
StepTrace(st, id) == Trace(id, "x", "x", st.stepName, st.status, st.error)

\* await sendTrace({...}); otelSpan.end(); return result
AfterSendTrace(st, call) ==
    IF call = "rejected"
    THEN [st EXCEPT !.pc = "done", !.outcome = "rejected", !.value = "transport"]
    ELSE [st EXCEPT !.pc = "done", !.outcome = "resolved", !.value = st.result]

StepNames(wrapper) == IF wrapper = "llm" THEN {"LLM Call"} ELSE {"x", Null}

StepIndex(id) == CHOOSE j \in DOMAIN steps : steps[j].id = id

RECURSIVE StepsLeft(_)
StepsLeft(q) == IF q = <<>> THEN 0 ELSE Head(q).left + StepsLeft(Tail(q))

\* The traceStep invocations made so far or still owed by a running flow.
StepsPlanned == nSteps + StepsLeft(steps)

\* hp.traceStep(options), hp.traceLLM(options) or hp.traceMultiStepFlow(options)
\* is called, after the previous wrapper call has returned: the first (or
\* only) traced function starts running.
TraceStepCall ==
    /\ Quiet
    /\ steps = <<>>
    /\ StepsPlanned < MaxSteps
    /\ \E wrapper \in {"step", "llm", "flow"}, status \in {"OK", "WARN"} :
       \E stepName \in StepNames(wrapper), left \in 0..(MaxSteps - StepsPlanned - 1) :
          /\ wrapper # "flow" => left = 0
          /\ wrapper # "step" => status = "OK"
          /\ steps' = Append(steps, NewStep(nSteps + 1, wrapper, stepName, status, left))
    /\ nSteps' = nSteps + 1
    /\ UNCHANGED <<clientVars, cfg, traceBatch, batchTimeout, sends, nCalls,
                   sinceFlush, firstAge, escaped>>

\* The traced function of invocation j returns or throws: traceStep builds the
\* record and calls sendTrace.
FuncSettles(j) ==
    /\ Quiet
    /\ steps[j].pc = "func"
    /\ \E outcome \in FuncOutcomes :
          LET st == FuncResult(steps[j], outcome)
              trace == StepTrace(st, nCalls + 1)
              sent == [st EXCEPT !.handed = @ + 1, !.trace = trace]
          IN  IF st.pc = "done"
              THEN /\ steps' = [steps EXCEPT ![j] = st]
                   /\ UNCHANGED <<traceBatch, batchTimeout, sends, nCalls,
                                  sinceFlush, firstAge>>
              ELSE /\ SendTrace(trace, st.id)
                   /\ steps' = [steps EXCEPT ![j] =
                                  IF Len(sends') > Len(sends)
                                     /\ sends'[Len(sends')].awaiter = st.id
                                  THEN [sent EXCEPT !.pc = "sending"]
                                  ELSE AfterSendTrace(sent, "returned")]
    /\ UNCHANGED <<clientVars, cfg, nSteps, escaped>>

\* Invocation j returns to its caller; in a traceMultiStepFlow the next step
\* starts unless traceStep rejected.
StepReturns(j) ==
    /\ steps[j].pc = "done"
    /\ escaped' = IF steps[j].outcome = "rejected"
                  THEN escaped \cup {steps[j].value} ELSE escaped
    /\ IF steps[j].left > 0 /\ steps[j].outcome = "resolved"
       THEN /\ \E stepName \in StepNames("flow") :
                 steps' = Append(Without(steps, j),
                                 NewStep(nSteps + 1, "flow", stepName, "OK",
                                         steps[j].left - 1))
            /\ nSteps' = nSteps + 1
       ELSE /\ steps' = Without(steps, j)
            /\ nSteps' = nSteps
    /\ UNCHANGED <<clientVars, cfg, traceBatch, batchTimeout, sends, nCalls,
                   sinceFlush, firstAge>>

\* The promise of send i, which has ended, settles: the sendTrace call that
\* awaits it (if any) returns, and so does the traceStep that awaits that call.
Settle(i) ==
    /\ sends[i].state \in Terminal
    /\ sends' = Without(sends, i)
    /\ LET aw == sends[i].awaiter
           call == SendTraceAwait(sends[i].state)
       IN  /\ escaped' = IF aw = 0 /\ call = "rejected"
                         THEN escaped \cup {"transport"} ELSE escaped
           /\ steps' = IF aw > 0
                       THEN [steps EXCEPT ![StepIndex(aw)] =
                               AfterSendTrace([@ EXCEPT !.send = sends[i].state], call)]
                       ELSE steps
    /\ UNCHANGED <<clientVars, cfg, traceBatch, batchTimeout, nCalls, nSteps,
                   sinceFlush, firstAge>>

FuncEnds == \E j \in DOMAIN steps : FuncSettles(j)

Returns == \E j \in DOMAIN steps : StepReturns(j)

Settles == \E i \in DOMAIN sends : Settle(i)

(***************************************************************************)
(* The client class HuggingPlace (huggingplace.js).                        *)
(*                                                                         *)
(* A JavaScript object is a function from its keys to their values; a key  *)
(* the object lacks is outside the domain.                                 *)
(***************************************************************************)
MaxOps == 3          \* calls made on the instance and the default sender

HTTP_OK == 200
DefaultBatchSize == 10
DefaultBatchTimeout == 5000

DEFAULT_BASE_URL == "https://default"
JSON == "application/json"

Has(o, k) == k \in DOMAIN o

\* { ...a, ...b }
Spread(a, b) ==
    [k \in DOMAIN a \cup DOMAIN b |-> IF k \in DOMAIN b THEN b[k] ELSE a[k]]

\* A timeout value: a number, or a value that is not a number (a string).
Num(n) == [num |-> TRUE, n |-> n, s |-> ""]
Str(s) == [num |-> FALSE, n |-> 0, s |-> s]

\* The truth value JavaScript gives a number or a string.
Truthy(v) == IF v.num THEN v.n # 0 ELSE v.s # ""

\* `Bearer ${apiKey}`
Bearer(apiKey) == <<"Bearer", apiKey>>

\* new HuggingPlace() without an argument
NoConfig == [undefined |-> TRUE]

\* A variant of validateConfig that does not require orgId.
validateConfigWithoutOrg(config) ==
    IF config = NoConfig THEN "Configuration is required"
    ELSE IF ~Has(config, "apiKey") \/ config.apiKey = "" THEN "API key is required"
    ELSE Null

\* validateConfig(config): the message of the ValidationError it throws, or
\* Null when it returns.
validateConfig(config) ==
    IF config = NoConfig
      THEN "Configuration is required"
    ELSE IF ~Has(config, "apiKey") \/ config.apiKey = ""
      THEN "API key is required"
    ELSE IF ~Has(config, "orgId") \/ config.orgId = ""
      THEN "Organization ID is required"
    ELSE IF /\ Has(config, "timeout")
            /\ Truthy(config.timeout)
            /\ (~config.timeout.num \/ config.timeout.n <= 0)
      THEN "Timeout must be a positive number"
    ELSE IF /\ Has(config, "mode")
            /\ config.mode # ""
            /\ config.mode \notin {"prod", "dev"}
      THEN "Mode must be either prod or dev"
    ELSE Null

\* The defaults the constructor spreads the given config over.
ConstructorDefaults ==
    [mode |-> "prod", timeout |-> Num(DefaultTimeout), silent |-> FALSE,
     traceBatchSize |-> DefaultBatchSize,
     traceBatchTimeout |-> DefaultBatchTimeout,
     traceMaxRetries |-> DefaultMaxRetries]

\* axios.create({ baseURL, timeout, headers }); the response interceptor is
\* installed separately.
AxiosCreate(baseURL, timeout, apiKey) ==
    [baseURL |-> baseURL, timeout |-> timeout,
     headers |-> [contentType |-> JSON, authorization |-> Bearer(apiKey)],
     interceptor |-> FALSE]

DEFAULT_TRACE_CONFIG ==
    [baseUrl |-> DEFAULT_BASE_URL, batchSize |-> DefaultBatchSize,
     batchTimeout |-> DefaultBatchTimeout, maxRetries |-> DefaultMaxRetries,
     retryDelay |-> DefaultRetryDelay, timeout |-> Num(DefaultTimeout),
     batchTimeoutMs |-> Num(DefaultBatchTimeoutMs),
     silent |-> FALSE, headers |-> [contentType |-> JSON]]

\* createSender(config) for the instance `owner` (0: the module itself): the
\* merged senderConfig with an empty batch and no timer.
createSender(owner, config) ==
    [owner |-> owner, senderConfig |-> Spread(DEFAULT_TRACE_CONFIG, config),
     traceBatch |-> <<>>, armed |-> FALSE]

\* const defaultSender = createSender()
DefaultSender == createSender(0, <<>>)

\* The body of the constructor after validateConfig: the instance, whose
\* sender is the pool sender number `sender`.
NewInstance(config, sender) ==
    LET merged == Spread(ConstructorDefaults, config)
        baseUrl == IF Has(config, "baseUrl") /\ config.baseUrl # ""
                   THEN config.baseUrl ELSE DEFAULT_BASE_URL
    IN  [given |-> config,
         config |-> merged,
         baseUrl |-> baseUrl,
         axiosInstance |->
             [AxiosCreate(baseUrl, merged.timeout, merged.apiKey)
                 EXCEPT !.interceptor = TRUE],
         sender |-> sender]

\* The sender the constructor creates for the instance.
InstanceSender(owner, h) ==
    createSender(owner,
        [baseUrl |-> h.baseUrl,
         batchSize |-> h.config.traceBatchSize,
         batchTimeout |-> h.config.traceBatchTimeout,
         maxRetries |-> h.config.traceMaxRetries,
         timeout |-> h.config.timeout,
         silent |-> h.config.silent,
         headers |-> [contentType |-> JSON,
                      authorization |-> Bearer(h.config.apiKey)]])

\* getConfig(): a copy of this.config
getConfig(h) == h.config

\* A variant that rebuilds the HTTP client on every update.
ClientChangedAlways(newConfig) == TRUE

\* newConfig.baseUrl || newConfig.timeout
ClientChanged(newConfig) ==
    \/ Has(newConfig, "baseUrl") /\ newConfig.baseUrl # ""
    \/ Has(newConfig, "timeout") /\ Truthy(newConfig.timeout)

\* newConfig.traceEndpoint || newConfig.traceBatchEndpoint ||
\* newConfig.traceBatchSize || newConfig.traceBatchTimeout ||
\* newConfig.traceMaxRetries || newConfig.silent
SenderChanged(newConfig) ==
    \/ Has(newConfig, "traceEndpoint") /\ newConfig.traceEndpoint # ""
    \/ Has(newConfig, "traceBatchEndpoint") /\ newConfig.traceBatchEndpoint # ""
    \/ Has(newConfig, "traceBatchSize") /\ newConfig.traceBatchSize # 0
    \/ Has(newConfig, "traceBatchTimeout") /\ newConfig.traceBatchTimeout # 0
    \/ Has(newConfig, "traceMaxRetries") /\ newConfig.traceMaxRetries # 0
    \/ Has(newConfig, "silent") /\ newConfig.silent

\* updateConfig(newConfig) on the instance h; `sender` is the pool number a
\* new sender would get.
updateConfig(h, newConfig, sender) ==
    LET merged == Spread(h.config, newConfig)
        client ==
            IF ClientChanged(newConfig)
            THEN AxiosCreate(
                   IF Has(newConfig, "baseUrl") /\ newConfig.baseUrl # ""
                     THEN newConfig.baseUrl ELSE h.baseUrl,
                   IF Has(newConfig, "timeout") /\ Truthy(newConfig.timeout)
                     THEN newConfig.timeout ELSE merged.timeout,
                   merged.apiKey)
            ELSE h.axiosInstance
    IN  [h EXCEPT !.config = merged,
                  !.axiosInstance = client,
                  !.sender = IF SenderChanged(newConfig) THEN sender ELSE @]

\* The argument of the createSender call of updateConfig; it holds no
\* baseUrl, and the instance has no traceEndpoint or traceBatchEndpoint
\* property to fall back on.
UpdatedSenderConfig(h, newConfig) ==
    LET merged == Spread(h.config, newConfig)
    IN    [traceEndpoint |-> IF Has(newConfig, "traceEndpoint")
                                /\ newConfig.traceEndpoint # ""
                             THEN newConfig.traceEndpoint ELSE Null,
           batchEndpoint |-> IF Has(newConfig, "traceBatchEndpoint")
                                /\ newConfig.traceBatchEndpoint # ""
                             THEN newConfig.traceBatchEndpoint ELSE Null,
           batchSize |-> IF Has(newConfig, "traceBatchSize")
                            /\ newConfig.traceBatchSize # 0
                         THEN newConfig.traceBatchSize
                         ELSE merged.traceBatchSize,
           batchTimeout |-> IF Has(newConfig, "traceBatchTimeout")
                               /\ newConfig.traceBatchTimeout # 0
                            THEN newConfig.traceBatchTimeout
                            ELSE merged.traceBatchTimeout,
           maxRetries |-> IF Has(newConfig, "traceMaxRetries")
                             /\ newConfig.traceMaxRetries # 0
                          THEN newConfig.traceMaxRetries
                          ELSE merged.traceMaxRetries,
           timeout |-> IF Has(newConfig, "timeout") /\ Truthy(newConfig.timeout)
                       THEN newConfig.timeout ELSE merged.timeout,
           silent |-> merged.silent,
           headers |-> [contentType |-> JSON,
                        authorization |-> Bearer(merged.apiKey)]]

\* A variant in which the new sender takes over the batch and the timer of
\* the sender it replaces.
UpdatedSenderTakesBatch(owner, h, newConfig) ==
    [createSender(owner, UpdatedSenderConfig(h, newConfig))
        EXCEPT !.traceBatch = pool[h.sender].traceBatch,
               !.armed = pool[h.sender].armed]

\* The sender updateConfig creates when a tracing setting is given.
UpdatedSender(owner, h, newConfig) ==
    createSender(owner, UpdatedSenderConfig(h, newConfig))

(***************************************************************************)
(* HTTP requests.  Only the first POST of a send is recorded: a retry      *)
(* repeats it with the same endpoint, headers and body.                    *)
(***************************************************************************)
LOG_PATH == "/v2/chatgpt/store_generated_response"
TRACE_PATH == "/api/traces"
BATCH_PATH == "/api/traces/batch"

Request(inst, baseURL, path, headers, body) ==
    [inst |-> inst, baseURL |-> baseURL, path |-> path, headers |-> headers,
     body |-> body]

(***************************************************************************)
(* log() (huggingplace.js) with validateLogOptions and the error classes.  *)
(***************************************************************************)
\* log() called without an argument
NoOptions == [undefined |-> TRUE]

\* validateLogOptions(options): the message of the ValidationError it
\* throws, or Null when it returns.
validateLogOptions(options) ==
    IF options = NoOptions
      THEN "Log options are required"
    ELSE IF /\ Has(options, "token_count")
            /\ Truthy(options.token_count)
            /\ (~options.token_count.num \/ options.token_count.n < 0)
      THEN "Token count must be a non-negative number"
    ELSE Null

\* createErrorFromResponse(status, message): the class of the error.
createErrorFromResponse(status) ==
    IF status = 401 THEN "AuthenticationError"
    ELSE IF status = 400 THEN "ValidationError"
    ELSE IF status = 429 THEN "RateLimitError"
    ELSE IF status \in {500, 502, 503, 504} THEN "ServerError"
    ELSE "HuggingPlaceSDKError"

\* The alias mapping log() applies to its options before sending.
LogAliases(options) ==
    LET a == IF /\ Has(options, "response") /\ options.response # ""
                /\ ~(Has(options, "ai_response") /\ options.ai_response # "")
             THEN Spread(options, [ai_response |-> options.response])
             ELSE options
    IN  IF /\ Has(a, "userMetadata") /\ a.userMetadata # ""
           /\ ~(Has(a, "user_meta_data") /\ a.user_meta_data # "")
        THEN Spread(a, [user_meta_data |-> a.userMetadata])
        ELSE a

\* A variant in which the caller's org_id and mode win over the configuration.
LogPayloadCallerWins(h, options) ==
    Spread([org_id |-> h.config.orgId, mode |-> h.config.mode], LogAliases(options))

\* const payload = { ...options, org_id: this.config.orgId, mode: this.config.mode }
LogPayload(h, options) ==
    Spread(LogAliases(options), [org_id |-> h.config.orgId, mode |-> h.config.mode])

\* What the backend or the network can make of the POST of log().
LogOutcomes ==
    [kind : {"response"}, status : {200, 201, 401, 429, 500, 501}, data : {"obj", Null}]
      \cup [kind : {"error"}, status : {0}, data : {"network"}]

\* axios's default validateStatus
ValidStatus(status) == status >= 200 /\ status < 300

\* How the promise of axiosInstance.post settles: fulfilled with the
\* response, or rejected with an error of the class given. Only a client
\* that has the response interceptor turns the axios error into an SDK error.
AxiosSettles(client, resp) ==
    IF resp.kind = "response" /\ ValidStatus(resp.status)
      THEN [fulfilled |-> TRUE, error |-> Null]
    ELSE IF ~client.interceptor
      THEN [fulfilled |-> FALSE, error |-> "AxiosError"]
    ELSE IF resp.kind = "response"
      THEN [fulfilled |-> FALSE, error |-> createErrorFromResponse(resp.status)]
    ELSE [fulfilled |-> FALSE, error |-> "NetworkError"]

\* A variant that takes every successful status for success.
LogAcceptsAnySuccess(status) == ValidStatus(status)

\* if (response.status !== 200) throw ...
LogAccepts(status) == status = HTTP_OK

\* How log() ends once its POST has settled: the class of the error it
\* rejects with, or Null when it resolves.
LogEnds(client, resp) ==
    LET settled == AxiosSettles(client, resp)
    IN  IF ~settled.fulfilled THEN settled.error
        ELSE IF ~LogAccepts(resp.status) THEN createErrorFromResponse(resp.status)
        ELSE IF resp.data = Null THEN "TypeError"
        ELSE Null

NoLogCall ==
    [pc |-> "idle", posts |-> 0, client |-> AxiosCreate("", Num(0), ""),
     status |-> 0, error |-> Null]

(***************************************************************************)
(* The senders of the pool: sendTrace and flushBatch of sender.js for a    *)
(* sender given as a value, up to the first POST of each send.             *)
(***************************************************************************)
\* flushBatch() of the pool sender s: the sender afterwards and the POSTs it
\* made.
PoolFlush(s) ==
    LET f == FlushBatch(s.traceBatch)
    IN  [sender |-> [s EXCEPT !.traceBatch = f.live],
         posts |-> IF ~f.sent THEN <<>>
                   ELSE <<Request(s.owner, s.senderConfig.baseUrl, BATCH_PATH,
                                  s.senderConfig.headers, f.detached)>>]

\* sendTrace(trace) of the pool sender s: the sender afterwards and the POSTs
\* it made.
PoolSendTrace(s, trace) ==
    IF MissingRequired(trace)
      THEN [sender |-> s, posts |-> <<>>]
    ELSE IF s.senderConfig.batchSize > 1
      THEN LET pushed == [s EXCEPT !.traceBatch = Append(@, trace),
                                   !.armed = FALSE]
           IN  IF Len(pushed.traceBatch) >= s.senderConfig.batchSize
               THEN PoolFlush(pushed)
               ELSE [sender |-> [pushed EXCEPT !.armed = TRUE], posts |-> <<>>]
    ELSE [sender |-> s,
          posts |-> <<Request(s.owner, s.senderConfig.baseUrl, TRACE_PATH,
                              s.senderConfig.headers, <<trace>>)>>]

\* HuggingPlace.sendTrace: the record with the account context added.
Enrich(h, trace) ==
    Spread(trace,
           [metadata |->
               Spread(IF Has(trace, "metadata") THEN trace.metadata ELSE <<>>,
                      [orgId |-> h.config.orgId, mode |-> h.config.mode])])

(***************************************************************************)
(* logWithTiming (huggingplace.js): a response generator and the log()     *)
(* calls around it.                                                        *)
(***************************************************************************)
\* How responseGenerator() can end; E is the error it throws.
GeneratorOutcomes == {"returns", "throwsE"}

\* The entry logged when the generator returned: the caller's options win.
TimedEntry(options) ==
    Spread([user_prompt |-> "q", ai_response |-> "r",
            response_time |-> Str("0 min 0.00 sec")],
           options)

\* The entry logged in the catch block: metaData with the error marks first,
\* then ...options, whose metaData replaces it.
ErrorEntry(options) ==
    Spread([user_prompt |-> "q", ai_response |-> "Error: msg",
            response_time |-> Str("0 min 0.00 sec"),
            metaData |->
              Spread(IF Has(options, "metaData") THEN options.metaData ELSE <<>>,
                     [error |-> TRUE, errorMessage |-> "msg"])],
           options)

\* No logWithTiming call so far.  History: generated counts the calls of
\* responseGenerator, logs the log() calls and posts their POSTs; caught is
\* the error the catch block received.
NoTimedCall ==
    [pc |-> "idle", block |-> "none", options |-> <<>>, gen |-> "none",
     generated |-> 0, logs |-> 0, posts |-> 0, caught |-> Null,
     outcome |-> "none", value |-> Null]

(***************************************************************************)
(* Session (session.js): a session id and default metadata around log().   *)
(***************************************************************************)
\* hp.startSession(sessionId, options): new Session(this, sessionId ||
\* uuidv4(), options)
NewSession(sessionId, options) ==
    [sessionId |-> IF sessionId # "" THEN sessionId ELSE "uuid",
     defaultMetadata |->
         IF Has(options, "metaData") THEN options.metaData ELSE <<>>,
     defaultUserMetaData |->
         IF Has(options, "user_meta_data") THEN options.user_meta_data ELSE <<>>]

\* A variant in which the session defaults win over the values of the call.
SessionMergedDefaultsWin(s, options) ==
    Spread(options,
           [session_id |-> s.sessionId,
            metaData |->
                Spread(IF Has(options, "metaData") THEN options.metaData ELSE <<>>,
                       s.defaultMetadata),
            user_meta_data |->
                Spread(IF Has(options, "user_meta_data")
                       THEN options.user_meta_data ELSE <<>>,
                       s.defaultUserMetaData)])

\* mergedOptions of Session.log(options)
SessionMerged(s, options) ==
    Spread(options,
           [session_id |-> IF Has(options, "session_id") /\ options.session_id # ""
                           THEN options.session_id ELSE s.sessionId,
            metaData |->
                Spread(s.defaultMetadata,
                       IF Has(options, "metaData") THEN options.metaData ELSE <<>>),
            user_meta_data |->
                Spread(s.defaultUserMetaData,
                       IF Has(options, "user_meta_data")
                       THEN options.user_meta_data ELSE <<>>)])

\* An argument of updateDefaults that was not given.
Undefined == [undefined |-> TRUE]

\* Session.updateDefaults(metadata, userMetaData)
updateDefaults(s, metadata, userMetaData) ==
    [s EXCEPT !.defaultMetadata =
                  IF metadata # Undefined THEN Spread(@, metadata) ELSE @,
              !.defaultUserMetaData =
                  IF userMetaData # Undefined THEN Spread(@, userMetaData) ELSE @]

(***************************************************************************)
(* Inputs of the client.                                                   *)
(***************************************************************************)
Account == [apiKey |-> "k1", orgId |-> "o1"]

\* The arguments given to the constructor.
ConstructorConfigs ==
    {NoConfig,
     Account,
     [apiKey |-> "k1"], [orgId |-> "o1"],
     [apiKey |-> "", orgId |-> "o1"], [apiKey |-> "k1", orgId |-> ""],
     Spread(Account, [mode |-> "dev"]),
     Spread(Account, [mode |-> "test"]),
     Spread(Account, [mode |-> ""]),
     Spread(Account, [timeout |-> Num(5000)]),
     Spread(Account, [timeout |-> Num(0)]),
     Spread(Account, [timeout |-> Num(-1)]),
     Spread(Account, [timeout |-> Str("5s")]),
     Spread(Account, [baseUrl |-> "https://other"]),
     Spread(Account, [traceBatchSize |-> 1]),
     Spread(Account, [traceBatchSize |-> 2])}

\* The arguments given to updateConfig.
ConfigUpdates ==
    {<<>>,
     [apiKey |-> "k2"], [orgId |-> "o2"], [mode |-> "dev"],
     [timeout |-> Num(5000)], [baseUrl |-> "https://other"],
     [traceBatchSize |-> 2], [silent |-> TRUE]}

\* Constructor arguments and updates that place the trace endpoints.
EndpointConfigs ==
    {Spread(Account, c) :
       c \in [traceBatchSize : {1, 2}]
           \cup [traceBatchSize : {1, 2}, baseUrl : {"https://other"}]
           \cup [traceBatchSize : {1, 2}, traceEndpoint : {"https://traces"},
                 traceBatchEndpoint : {"https://batches"}]}

EndpointUpdates ==
    {[traceEndpoint |-> "https://traces", traceBatchEndpoint |-> "https://batches"],
     [baseUrl |-> "https://third"],
     [traceBatchSize |-> 1], [traceBatchSize |-> 2]}

\* The arguments given to startSession, Session.log and updateDefaults.
SessionOptions ==
    {<<>>,
     [metaData |-> [userId |-> "u1"]],
     [metaData |-> [userId |-> "u1"], user_meta_data |-> [email |-> "e1"]]}

SessionLogInputs ==
    {[user_prompt |-> "q"],
     [user_prompt |-> "q", session_id |-> "s2"],
     [user_prompt |-> "q", session_id |-> ""],
     [user_prompt |-> "q", metaData |-> [userId |-> "u2"]],
     [user_prompt |-> "q", metaData |-> [topic |-> "t"],
      user_meta_data |-> [email |-> "e2"]]}

DefaultsUpdates ==
    {<<[topic |-> "d"], Undefined>>,
     <<Undefined, [email |-> "e3"]>>,
     <<[userId |-> "u3"], [org_name |-> "n"]>>}

\* Arguments given to updateConfig, among them values updateConfig takes
\* for absent (0, false, the empty string) and values validateConfig rejects.
ReconfigUpdates ==
    {[mode |-> "dev"], [mode |-> "test"],
     [apiKey |-> ""],
     [timeout |-> Num(5000)], [timeout |-> Num(0)], [timeout |-> Num(-1)],
     [baseUrl |-> "https://other"],
     [traceBatchSize |-> 2], [traceBatchSize |-> 0],
     [traceMaxRetries |-> 0],
     [silent |-> TRUE], [silent |-> FALSE]}

\* Arguments of updateConfig that make it replace the sender.
SenderUpdates == {[traceBatchSize |-> 2], [silent |-> TRUE]}

\* The configurations of two instances of one program: two accounts, the
\* second with its own base URL and batches of two.
Accounts ==
    <<[apiKey |-> "k1", orgId |-> "o1"],
      [apiKey |-> "k2", orgId |-> "o2", baseUrl |-> "https://other",
       traceBatchSize |-> 2]>>

\* The arguments given to updateConfig when two instances are in use.
InstanceUpdates == {[traceBatchSize |-> 2], [apiKey |-> "k3"]}

\* The records given to sendTrace of the instance `via`, marked with it.
SubmittedTraces(via, id) ==
    {[id |-> id, via |-> via, traceId |-> "x", spanId |-> "x",
      operation |-> "x"]}

\* The options given to logWithTiming.
TimedOptions ==
    {<<>>,
     [session_id |-> "s"],
     [metaData |-> [userId |-> "u1"]],
     [token_count |-> Num(-1)]}

\* The arguments given to log().
LogInputs ==
    {NoOptions,
     [user_prompt |-> "q", response |-> "a"],
     [user_prompt |-> "q", org_id |-> "o9", mode |-> "m9"],
     [token_count |-> Num(-1)]}

\* The arguments given to log() that vary the fields log() and its
\* validation look at. A field's value is a string, "" being the empty
\* string; token_count and response_time are numbers or strings.
LogFieldInputs ==
    {NoOptions,
     <<>>,
     [response |-> "a"],
     [response |-> "a", ai_response |-> "b"],
     [response |-> "a", ai_response |-> ""],
     [response |-> ""],
     [userMetadata |-> "u"],
     [userMetadata |-> "u", user_meta_data |-> "v"],
     [metadata |-> "m"],
     [metadata |-> "m", metaData |-> "n"],
     [token_count |-> Num(5)],
     [token_count |-> Num(0)],
     [token_count |-> Num(-1)],
     [token_count |-> Str("5")],
     [token_count |-> Str("")],
     [user_prompt |-> "q", response_time |-> Str("1.5s")],
     [response_time |-> Num(3)]}

\* The records given to HuggingPlace.sendTrace and to the exported sendTrace;
\* id is the number of the call.
ClientTraces(id) ==
    {[id |-> id, traceId |-> "x", spanId |-> "x", operation |-> "x"],
     [id |-> id, traceId |-> "x", spanId |-> "x", operation |-> "x",
      metadata |-> [orgId |-> "o9", mode |-> "m9", user |-> "u"]]}

(***************************************************************************)
(* Actions of the client.                                                  *)
(***************************************************************************)
Running == proc.state = "running"

\* new HuggingPlace(config)
ConstructWith(config) ==
    /\ Running
    /\ hp = <<>>
    /\ LET h == NewInstance(config, Len(pool) + 1)
       IN  IF validateConfig(config) # Null
           THEN /\ proc' = [proc EXCEPT !.thrown = "ValidationError",
                                        !.message = validateConfig(config)]
                /\ UNCHANGED <<hp, pool>>
           ELSE /\ hp' = <<h>>
                /\ pool' = Append(pool, InstanceSender(1, h))
                /\ proc' = [proc EXCEPT !.thrown = Null, !.message = Null]
    /\ UNCHANGED <<senderVars, session, timed, requests, logCall, nOps>>

Construct == \E config \in ConstructorConfigs : ConstructWith(config)

EndpointConstruct == \E config \in EndpointConfigs : ConstructWith(config)

\* hp.updateConfig(newConfig)
UpdateConfigWith(newConfig) ==
    /\ Running
    /\ hp # <<>>
    /\ nOps < MaxOps
    /\ hp' = <<updateConfig(hp[1], newConfig, Len(pool) + 1)>>
    /\ pool' = IF SenderChanged(newConfig)
               THEN Append(pool, UpdatedSender(1, hp[1], newConfig))
               ELSE pool
    /\ nOps' = nOps + 1
    /\ UNCHANGED <<senderVars, session, timed, requests, logCall, proc>>

UpdateConfigCall == \E newConfig \in ConfigUpdates : UpdateConfigWith(newConfig)

EndpointUpdate == \E newConfig \in EndpointUpdates : UpdateConfigWith(newConfig)

Reconfigure == \E newConfig \in ReconfigUpdates : UpdateConfigWith(newConfig)

ReplaceSender == \E newConfig \in SenderUpdates : UpdateConfigWith(newConfig)

\* hp.log(options), up to its POST, whoever calls it
LogBody(options) ==
    /\ Running
    /\ hp # <<>>
    /\ nOps < MaxOps
    /\ LET client == hp[1].axiosInstance
       IN  IF validateLogOptions(options) # Null
           THEN /\ logCall' = [pc |-> "done", posts |-> 0, client |-> client,
                               status |-> 0, error |-> "ValidationError"]
                /\ requests' = requests
           ELSE /\ logCall' = [pc |-> "posting", posts |-> 1, client |-> client,
                               status |-> 0, error |-> Null]
                /\ requests' =
                     Append(requests,
                            Request(1, client.baseURL, LOG_PATH, client.headers,
                                    <<LogPayload(hp[1], options)>>))
    /\ nOps' = nOps + 1
    /\ UNCHANGED <<senderVars, session, hp, pool, proc>>

\* hp.log(options) called by the program or by a session
LogWith(options) == LogBody(options) /\ UNCHANGED timed

LogCall == \E options \in LogInputs : LogWith(options)

LogFieldsCall == \E options \in LogFieldInputs : LogWith(options)

\* The POST of the log() call settles and log() ends.
LogResponse ==
    /\ Running
    /\ logCall.pc = "posting"
    /\ \E resp \in LogOutcomes :
          logCall' = [logCall EXCEPT !.pc = "done",
                                     !.status = resp.status,
                                     !.error = LogEnds(logCall.client, resp)]
    /\ UNCHANGED <<senderVars, session, timed, hp, pool, requests, proc, nOps>>

\* hp.logWithTiming(userPrompt, responseGenerator, options): the generator
\* runs and returns or throws, and the try block or the catch block calls
\* log().  The catch block may call log() once more, so the call needs two
\* calls of the budget.
LogWithTimingWith(options, gen) ==
    /\ timed.pc \in {"idle", "done"}
    /\ logCall.pc # "posting"
    /\ nOps + 1 < MaxOps
    /\ LogBody(IF gen = "returns" THEN TimedEntry(options) ELSE ErrorEntry(options))
    /\ timed' = [pc |-> "logging",
                 block |-> IF gen = "returns" THEN "try" ELSE "catch",
                 options |-> options, gen |-> gen,
                 generated |-> 1, logs |-> 1,
                 posts |-> Len(requests') - Len(requests),
                 caught |-> IF gen = "returns" THEN Null ELSE "E",
                 outcome |-> "pending", value |-> Null]

LogWithTiming ==
    \E options \in TimedOptions, gen \in GeneratorOutcomes :
       LogWithTimingWith(options, gen)

\* The log() call of logWithTiming has ended.  In the try block: return the
\* response, or, log() having rejected, enter the catch block, which logs the
\* error entry.  In the catch block: throw the error caught, unless the
\* log() call rejected, whose error then leaves the catch block.
TimedLogEnds ==
    /\ timed.pc = "logging"
    /\ logCall.pc = "done"
    /\ IF timed.block = "try" /\ logCall.error # Null
       THEN /\ LogBody(ErrorEntry(timed.options))
            /\ timed' = [timed EXCEPT !.block = "catch",
                                      !.logs = @ + 1,
                                      !.posts = @ + Len(requests') - Len(requests),
                                      !.caught = logCall.error]
       ELSE /\ timed' = [timed EXCEPT
                           !.pc = "done",
                           !.outcome = IF timed.block = "try"
                                       THEN "resolved" ELSE "rejected",
                           !.value = IF timed.block = "try" THEN "r"
                                     ELSE IF logCall.error # Null
                                       THEN logCall.error
                                     ELSE timed.caught]
            /\ UNCHANGED <<senderVars, session, hp, pool, requests, logCall,
                           proc, nOps>>

\* hp.startSession(sessionId, options)
StartSessionWith(sessionId, options) ==
    /\ Running
    /\ hp # <<>>
    /\ session = <<>>
    /\ nOps < MaxOps
    /\ session' = <<NewSession(sessionId, options)>>
    /\ nOps' = nOps + 1
    /\ UNCHANGED <<senderVars, timed, hp, pool, requests, logCall, proc>>

StartSession ==
    \E sessionId \in {"s1", ""}, options \in SessionOptions :
       StartSessionWith(sessionId, options)

\* session.log(options), up to the POST of the log() call it makes
SessionLogWith(options) ==
    /\ session # <<>>
    /\ LogWith(SessionMerged(session[1], options))

SessionLog == \E options \in SessionLogInputs : SessionLogWith(options)

\* session.updateDefaults(metadata, userMetaData)
UpdateDefaultsWith(metadata, userMetaData) ==
    /\ Running
    /\ session # <<>>
    /\ nOps < MaxOps
    /\ session' = <<updateDefaults(session[1], metadata, userMetaData)>>
    /\ nOps' = nOps + 1
    /\ UNCHANGED <<senderVars, timed, hp, pool, requests, logCall, proc>>

UpdateDefaults == \E args \in DefaultsUpdates : UpdateDefaultsWith(args[1], args[2])

\* hp.sendTrace(trace), which the wrappers of the instance call
HpSendTraceWith(trace) ==
    /\ Running
    /\ hp # <<>>
    /\ nOps < MaxOps
    /\ LET r == PoolSendTrace(pool[hp[1].sender], Enrich(hp[1], trace))
       IN  /\ pool' = [pool EXCEPT ![hp[1].sender] = r.sender]
           /\ requests' = requests \o r.posts
    /\ nOps' = nOps + 1
    /\ UNCHANGED <<senderVars, session, timed, hp, logCall, proc>>

HpSendTrace == \E trace \in ClientTraces(nOps + 1) : HpSendTraceWith(trace)

\* hp.sendTrace(trace) on the instance number i of the program
InstSendTraceWith(i, trace) ==
    /\ Running
    /\ i \in DOMAIN hp
    /\ nOps < MaxOps
    /\ LET r == PoolSendTrace(pool[hp[i].sender], Enrich(hp[i], trace))
       IN  /\ pool' = [pool EXCEPT ![hp[i].sender] = r.sender]
           /\ requests' = requests \o r.posts
    /\ nOps' = nOps + 1
    /\ UNCHANGED <<senderVars, session, timed, hp, logCall, proc>>

InstSendTrace ==
    \E i \in DOMAIN hp : \E trace \in SubmittedTraces(i, nOps + 1) :
       InstSendTraceWith(i, trace)

\* hp.updateConfig(newConfig) on the instance number i of the program
InstUpdateConfigWith(i, newConfig) ==
    /\ Running
    /\ i \in DOMAIN hp
    /\ nOps < MaxOps
    /\ hp' = [hp EXCEPT ![i] = updateConfig(hp[i], newConfig, Len(pool) + 1)]
    /\ pool' = IF SenderChanged(newConfig)
               THEN Append(pool, UpdatedSender(i, hp[i], newConfig))
               ELSE pool
    /\ nOps' = nOps + 1
    /\ UNCHANGED <<senderVars, session, timed, requests, logCall, proc>>

InstUpdateConfig ==
    \E i \in DOMAIN hp : \E newConfig \in InstanceUpdates :
       InstUpdateConfigWith(i, newConfig)

\* The exported sendTrace(trace), which uses the default sender.
DefaultSendTrace ==
    /\ Running
    /\ nOps < MaxOps
    /\ \E trace \in ClientTraces(nOps + 1) :
          LET r == PoolSendTrace(pool[1], trace)
          IN  /\ pool' = [pool EXCEPT ![1] = r.sender]
              /\ requests' = requests \o r.posts
    /\ nOps' = nOps + 1
    /\ UNCHANGED <<senderVars, session, timed, hp, logCall, proc>>

\* The idle timer of a pool sender fires.
PoolTimerFires ==
    /\ Running
    /\ \E p \in DOMAIN pool :
          /\ pool[p].armed
          /\ LET r == PoolFlush([pool[p] EXCEPT !.armed = FALSE])
             IN  /\ pool' = [pool EXCEPT ![p] = r.sender]
                 /\ requests' = requests \o r.posts
    /\ UNCHANGED <<senderVars, session, timed, hp, logCall, proc, nOps>>

\* SIGINT or SIGTERM: the handler flushes the default sender and exits.
Signal ==
    /\ Running
    /\ LET r == PoolFlush(pool[1])
       IN  /\ pool' = [pool EXCEPT ![1] = r.sender]
           /\ requests' = requests \o r.posts
    /\ proc' = [proc EXCEPT !.state = "exited"]
    /\ UNCHANGED <<senderVars, session, timed, hp, logCall, nOps>>

(***************************************************************************)
(* Specifications.                                                         *)
(***************************************************************************)
SenderStart ==
    /\ traceBatch = <<>>
    /\ batchTimeout = NoTimer
    /\ sends = <<>>
    /\ steps = <<>>
    /\ nCalls = 0
    /\ nSteps = 0
    /\ sinceFlush = <<>>
    /\ firstAge = 0
    /\ escaped = {}

ClientStart ==
    /\ hp = <<>>
    /\ pool = <<DefaultSender>>
    /\ requests = <<>>
    /\ logCall = NoLogCall
    /\ proc = [state |-> "running", thrown |-> Null, message |-> Null]
    /\ nOps = 0
    /\ session = <<>>
    /\ timed = NoTimedCall

\* The state when the module has been loaded: no instance, the default
\* sender, nothing buffered and nothing in flight.
Start == SenderStart /\ ClientStart

\* A sender made by createSender(config), used directly; retryDelay is left
\* at its default here and varied in RetryInit.
Init ==
    /\ cfg \in SenderConfigs
    /\ cfg.retryDelay = DefaultRetryDelay
    /\ Start

Next ==
    \/ SendTraceCall
    \/ FlushBatchCall
    \/ TimerFires
    \/ Tick
    \/ Responds
    \/ Retries
    \/ Settles

Spec == Init /\ [][Next]_vars

\* The same sender under the configurations that retry more often.
RetryInit == cfg \in RetryConfigs /\ Start

RetryNext ==
    \/ SendTraceCall
    \/ TimerFires
    \/ Tick
    \/ Responds
    \/ Retries
    \/ Settles

RetrySpec == RetryInit /\ [][RetryNext]_vars

\* The sender of a HuggingPlace instance, which leaves retryDelay at its
\* default, fed by the instance's tracing wrappers.
TraceInit ==
    /\ cfg \in SenderConfigs
    /\ cfg.retryDelay = DefaultRetryDelay
    /\ cfg.batchTimeout = 2 * TickMs
    /\ cfg.batchSize \in {1, 2}
    /\ Start

TraceNext ==
    \/ TraceStepCall
    \/ FuncEnds
    \/ Returns
    \/ TimerFires
    \/ Tick
    \/ Responds
    \/ Retries
    \/ Settles

TraceSpec == TraceInit /\ [][TraceNext]_vars

\* The client specifications leave aside the one sender under test of the
\* specifications above; its variables stay as they start.
AsideConfig ==
    [batchSize |-> 1, batchTimeout |-> 2 * TickMs, maxRetries |-> 0,
     retryDelay |-> DefaultRetryDelay, silent |-> FALSE]

\* A program that constructs an instance, reconfigures it, logs and traces.
ConfigInit == cfg = AsideConfig /\ Start

ConfigNext ==
    \/ Construct
    \/ UpdateConfigCall
    \/ LogCall
    \/ HpSendTrace
    \/ PoolTimerFires

ConfigSpec == ConfigInit /\ [][ConfigNext]_vars

\* A program after new HuggingPlace({ apiKey, orgId }) that reconfigures the
\* instance and logs.
LogInit ==
    /\ cfg = AsideConfig
    /\ SenderStart
    /\ hp = <<NewInstance(Account, 2)>>
    /\ pool = <<DefaultSender, InstanceSender(1, NewInstance(Account, 2))>>
    /\ requests = <<>>
    /\ logCall = NoLogCall
    /\ proc = [state |-> "running", thrown |-> Null, message |-> Null]
    /\ nOps = 0
    /\ session = <<>>
    /\ timed = NoTimedCall

LogNext ==
    \/ UpdateConfigCall
    \/ LogCall
    \/ LogResponse

LogSpec == LogInit /\ [][LogNext]_vars

\* A program after new HuggingPlace({ apiKey, orgId }) that logs records of
\* every shape, each call followed up to its POST.
FieldInit == LogInit

FieldNext == LogFieldsCall

FieldSpec == FieldInit /\ [][FieldNext]_vars

\* A program that constructs an instance with its trace endpoints placed,
\* moves them and traces.
EndpointInit == ConfigInit

EndpointNext ==
    \/ EndpointConstruct
    \/ EndpointUpdate
    \/ HpSendTrace

EndpointSpec == EndpointInit /\ [][EndpointNext]_vars

\* A program after new HuggingPlace({ apiKey, orgId }) that starts a session,
\* logs through it and updates its defaults.
SessionInit == LogInit

SessionNext ==
    \/ StartSession
    \/ SessionLog
    \/ UpdateDefaults

SessionSpec == SessionInit /\ [][SessionNext]_vars

\* A program after new HuggingPlace({ apiKey, orgId }) that reconfigures the
\* instance again and again.
ReconfigInit == LogInit

ReconfigNext == Reconfigure

ReconfigSpec == ReconfigInit /\ [][ReconfigNext]_vars

\* A program after new HuggingPlace({ apiKey, orgId }) that traces and has
\* updateConfig replace the sender, under the scheduling of the event loop:
\* pending idle timers fire.
ReplaceInit == LogInit

ReplaceNext ==
    \/ HpSendTrace
    \/ ReplaceSender
    \/ PoolTimerFires

ReplaceSpec ==
    /\ ReplaceInit
    /\ [][ReplaceNext]_vars
    /\ WF_vars(PoolTimerFires)

\* A program with two instances, each with the sender its constructor made,
\* that traces through both and through the exported sendTrace, and
\* reconfigures them.
IsolationInit ==
    /\ cfg = AsideConfig
    /\ SenderStart
    /\ hp = <<NewInstance(Accounts[1], 2), NewInstance(Accounts[2], 3)>>
    /\ pool = <<DefaultSender,
                InstanceSender(1, NewInstance(Accounts[1], 2)),
                InstanceSender(2, NewInstance(Accounts[2], 3))>>
    /\ requests = <<>>
    /\ logCall = NoLogCall
    /\ proc = [state |-> "running", thrown |-> Null, message |-> Null]
    /\ nOps = 0
    /\ session = <<>>
    /\ timed = NoTimedCall

IsolationNext ==
    \/ InstSendTrace
    \/ DefaultSendTrace
    \/ InstUpdateConfig
    \/ PoolTimerFires

IsolationSpec == IsolationInit /\ [][IsolationNext]_vars

\* A program after new HuggingPlace({ apiKey, orgId }) that logs with
\* timing.
TimingInit == LogInit

TimingNext ==
    \/ LogWithTiming
    \/ LogResponse
    \/ TimedLogEnds

TimingSpec == TimingInit /\ [][TimingNext]_vars

\* A program that traces through an instance and through the default sender
\* and is sent a termination signal.
ShutdownInit == cfg = AsideConfig /\ Start

ShutdownNext ==
    \/ Construct
    \/ HpSendTrace
    \/ DefaultSendTrace
    \/ PoolTimerFires
    \/ Signal

ShutdownSpec == ShutdownInit /\ [][ShutdownNext]_vars

\* The sender configured without retries (maxRetries: 0), under the
\* scheduling of the event loop: time passes, due timers fire, pending
\* requests are answered and pending continuations run.
IdleInit ==
    /\ cfg \in SenderConfigs
    /\ cfg.maxRetries = 0
    /\ cfg.retryDelay = DefaultRetryDelay
    /\ Start

IdleNext ==
    \/ SendTraceCall
    \/ FlushBatchCall
    \/ TimerFires
    \/ Tick
    \/ Responds
    \/ Settles

IdleSpec ==
    /\ IdleInit
    /\ [][IdleNext]_vars
    /\ WF_vars(Tick)
    /\ WF_vars(TimerFires)
    /\ WF_vars(Responds)
    /\ WF_vars(Settles)

\* The sender with the default retryDelay under the scheduling of the event
\* loop: time passes, due timers fire, pending requests are answered, backoff
\* waits end and pending continuations run.
DeliveryInit ==
    /\ cfg \in SenderConfigs
    /\ cfg.retryDelay = DefaultRetryDelay
    /\ cfg.batchTimeout = 2 * TickMs
    /\ Start

DeliveryNext ==
    \/ SendTraceCall
    \/ FlushBatchCall
    \/ TimerFires
    \/ Tick
    \/ Responds
    \/ Retries
    \/ Settles

DeliverySpec ==
    /\ DeliveryInit
    /\ [][DeliveryNext]_vars
    /\ WF_vars(Tick)
    /\ WF_vars(TimerFires)
    /\ WF_vars(Responds)
    /\ WF_vars(Retries)
    /\ WF_vars(Settles)

(***************************************************************************)
(* Claims.                                                                 *)
(***************************************************************************)
\* A record with all three required fields present and non-empty.
Complete(trace) ==
    /\ trace.traceId \notin {Null, ""}
    /\ trace.spanId \notin {Null, ""}
    /\ trace.operation \notin {Null, ""}

Newest(q) == q[Len(q)]

\* C1: with batchSize = N > 1, the sendTrace call that submits the N-th valid
\* record since the last flush starts exactly one send, a first POST to the
\* batch endpoint, whose payload is exactly those N records in submission
\* order; the live batch is left empty and the idle timer cancelled.
C1_FullBatchFlushedOnce ==
    [][\A trace \in TraceInputs(nCalls + 1) :
          (/\ cfg.batchSize > 1
           /\ Complete(trace)
           /\ Len(sinceFlush) = cfg.batchSize - 1
           /\ SendTrace(trace, 0))
          => /\ Len(sends') = Len(sends) + 1
             /\ SubSeq(sends', 1, Len(sends)) = sends
             /\ Newest(sends').endpoint = "batch"
             /\ Newest(sends').payload = Append(sinceFlush, trace)
             /\ Newest(sends').posts = 1
             /\ traceBatch' = <<>>
             /\ ~batchTimeout'.armed]_vars

C1_Witness ==
    \E i \in DOMAIN sends :
        /\ sends[i].cause = "size"
        /\ cfg.batchSize > 1
        /\ Len(sends[i].payload) = cfg.batchSize

\* C2: with batchSize = N > 1, when the idle timer flushes, at least
\* batchTimeout ms have passed since the first record of the batch was
\* submitted, fewer than N records are in the batch, and the batch handed to
\* the transport is exactly the records submitted since the last flush, in
\* order; and every buffered record is eventually flushed.
C2_IdleFlush ==
    /\ [][(TimerFires /\ traceBatch # <<>>)
            => /\ firstAge >= cfg.batchTimeout
               /\ Len(sinceFlush) < cfg.batchSize
               /\ Len(sends') = Len(sends) + 1
               /\ Newest(sends').endpoint = "batch"
               /\ Newest(sends').payload = sinceFlush
               /\ traceBatch' = <<>>]_vars
    /\ \A id \in 1..MaxCalls :
          (\E k \in DOMAIN traceBatch : traceBatch[k].id = id)
             ~> (\A k \in DOMAIN traceBatch : traceBatch[k].id # id)

C2_Witness ==
    \E i \in DOMAIN sends :
        /\ sends[i].cause = "timer"
        /\ cfg.batchSize > 2
        /\ Len(sends[i].payload) = 2

\* C3: for the single-record and the batch transport alike, a send none of
\* whose attempts was answered with 201 makes at most maxRetries + 1 POSTs,
\* ends only after exactly maxRetries + 1 POSTs, ends as dropped with the null
\* sentinel, and no exception reaches the submitter; for every maxRetries
\* from 0 up.
C3_RetryBound ==
    /\ escaped = {}
    /\ \A i \in DOMAIN sends :
          /\ sends[i].state # "threw"
          /\ sends[i].postsAt201 = 0
               => /\ sends[i].posts <= cfg.maxRetries + 1
                  /\ sends[i].state \in {"success", "dropped", "threw"}
                       => /\ sends[i].state = "dropped"
                          /\ sends[i].posts = cfg.maxRetries + 1
                          /\ sends[i].result = Null

C3_Witness ==
    /\ cfg.maxRetries = DefaultMaxRetries
    /\ \E i \in DOMAIN sends :
          /\ sends[i].state = "dropped"
          /\ sends[i].postsAt201 = 0
          /\ sends[i].posts = DefaultMaxRetries + 1

\* C4: the n-th wait scheduled for a send (n counted from 0) is exactly
\* retryDelay * 2^n ms, that is 1000, 2000 and 4000 ms with the default
\* retryDelay; at most maxRetries waits are scheduled, and every retry that
\* was issued had waited at least its scheduled delay.
C4_BackoffSchedule ==
    \A i \in DOMAIN sends :
        /\ Len(sends[i].delays) <= cfg.maxRetries
        /\ Len(sends[i].waits) <= Len(sends[i].delays)
        /\ \A n \in DOMAIN sends[i].delays :
              /\ sends[i].delays[n] = cfg.retryDelay * <<1, 2, 4>>[n]
              /\ cfg.retryDelay = DefaultRetryDelay
                   => sends[i].delays[n] = <<1000, 2000, 4000>>[n]
        /\ \A n \in DOMAIN sends[i].waits :
              sends[i].waits[n] >= sends[i].delays[n]

C4_Witness ==
    /\ cfg.retryDelay = DefaultRetryDelay
    /\ \E i \in DOMAIN sends :
          /\ sends[i].delays = <<1000, 2000, 4000>>
          /\ Len(sends[i].waits) = 3

\* C5: once an attempt of a send was answered with 201, no further POST is
\* made for that send, whatever the response body and for both values of
\* silent; and a dropped send makes no further POST.
C5_TerminalOutcomes ==
    \A i \in DOMAIN sends :
        /\ sends[i].postsAt201 > 0 => sends[i].posts = sends[i].postsAt201
        /\ sends[i].state = "dropped" => sends[i].posts = cfg.maxRetries + 1

\* C6: no transport error reaches the caller of traceStep, traceLLM or
\* traceMultiStepFlow, whatever the transport did and with or without
\* batching; when the traced function returned, the call resolves with the
\* function's result.
C6_TransportErrorsContained ==
    /\ "transport" \notin escaped
    /\ \A j \in DOMAIN steps :
          steps[j].pc = "done"
            => /\ steps[j].value # "transport"
               /\ steps[j].func = "returns"
                    => /\ steps[j].outcome = "resolved"
                       /\ steps[j].value = "result"

C6_Witness ==
    \E j \in DOMAIN steps :
        /\ steps[j].pc = "done"
        /\ steps[j].func = "returns"
        /\ steps[j].send = "dropped"
        /\ steps[j].outcome = "resolved"

\* C7: every finished traceStep invocation handed exactly one record to the
\* sender; the record's status is OK when the function returned, and ERROR
\* with the error message recorded when the function threw.
C7_OneRecordPerStep ==
    \A j \in DOMAIN steps :
        steps[j].pc = "done"
          => /\ steps[j].handed = 1
             /\ steps[j].func = "returns" => steps[j].trace.status = "OK"
             /\ steps[j].func # "returns"
                  => /\ steps[j].trace.status = "ERROR"
                     /\ steps[j].trace.error # Null

\* C8: when the traced function threw, the wrapper's call rejects; it does
\* not resolve with a value.
C8_FunctionErrorReraised ==
    \A j \in DOMAIN steps :
        (steps[j].pc = "done" /\ steps[j].func # "returns")
          => steps[j].outcome = "rejected"

\* C9: a sendTrace call with a record whose traceId, spanId or operation is
\* missing or empty leaves the live batch, the idle timer and the in-flight
\* sends exactly as they were; no such record is ever buffered or part of a
\* payload that is posted or retried.
C9_InvalidRecordRejected ==
    /\ [](/\ \A k \in DOMAIN traceBatch : Complete(traceBatch[k])
          /\ \A i \in DOMAIN sends :
                \A k \in DOMAIN sends[i].payload : Complete(sends[i].payload[k]))
    /\ [][\A trace \in TraceInputs(nCalls + 1) :
            (~Complete(trace) /\ SendTrace(trace, 0))
              => UNCHANGED <<traceBatch, batchTimeout, sends>>]_vars

C9_Witness ==
    /\ traceBatch # <<>>
    /\ batchTimeout.armed
    /\ nCalls > Newest(traceBatch).id

\* C10: with batchSize = 1 each valid sendTrace call starts exactly one
\* single-record send with its record (a first POST to the trace endpoint);
\* the batch buffer stays empty, the idle timer is never armed, and no send
\* to the batch endpoint exists.
C10_BatchingDisabled ==
    /\ [](cfg.batchSize = 1
            => /\ traceBatch = <<>>
               /\ ~batchTimeout.armed /\ ~batchTimeout.handle
               /\ \A i \in DOMAIN sends :
                     /\ sends[i].endpoint = "single"
                     /\ Len(sends[i].payload) = 1
                     /\ \A k \in DOMAIN sends :
                           k # i => sends[k].payload # sends[i].payload)
    /\ [][\A trace \in TraceInputs(nCalls + 1) :
            (cfg.batchSize = 1 /\ Complete(trace) /\ SendTrace(trace, 0))
              => /\ Len(sends') = Len(sends) + 1
                 /\ SubSeq(sends', 1, Len(sends)) = sends
                 /\ Newest(sends').endpoint = "single"
                 /\ Newest(sends').payload = <<trace>>
                 /\ Newest(sends').posts = 1]_vars

C10_Witness ==
    /\ cfg.batchSize = 1
    /\ Len(sends) = 2
    /\ \A i \in DOMAIN sends : sends[i].endpoint = "single"

\* The ids of the records of a batch.
Ids(q) == {q[k].id : k \in DOMAIN q}

\* C11: flushBatch empties the live batch and starts, without waiting for
\* it, one send that holds exactly the prior contents; a sendTrace call
\* leaves every send already in flight as it is, so a record submitted in
\* the meantime is in the live batch only; no record is in the live batch and
\* in an in-flight batch, or in two in-flight batches, at the same time.
C11_FlushDetaches ==
    /\ [](\A i \in DOMAIN sends :
             /\ Ids(sends[i].payload) \cap Ids(traceBatch) = {}
             /\ \A k \in DOMAIN sends :
                   k # i => Ids(sends[i].payload) \cap Ids(sends[k].payload) = {})
    /\ [][FlushBatchCall
            => /\ traceBatch' = <<>>
               /\ traceBatch = <<>> => sends' = sends
               /\ traceBatch # <<>>
                    => /\ Len(sends') = Len(sends) + 1
                       /\ SubSeq(sends', 1, Len(sends)) = sends
                       /\ Newest(sends').payload = traceBatch
                       /\ Newest(sends').state = "posting"]_vars
    /\ [][SendTraceCall
            => /\ Len(sends') >= Len(sends)
               /\ \A i \in DOMAIN sends : sends'[i] = sends[i]]_vars

C11_Witness ==
    /\ Len(sends) = 2
    /\ sends[1].endpoint = "batch" /\ sends[1].state = "backoff"
    /\ sends[2].endpoint = "batch" /\ sends[2].state = "posting"

\* C12: when the process has exited on a termination signal, no sender holds
\* buffered records: the pending batch of the default sender and of every
\* instance's sender was detached and handed to the transport before.
C12_ShutdownFlushesAll ==
    proc.state = "exited" => \A p \in DOMAIN pool : pool[p].traceBatch = <<>>

\* C13: updateConfig({}) changes nothing: getConfig() returns what it
\* returned before, and the HTTP client, the sender of the instance and every
\* sender's batch and timer are the same as before.
C13_EmptyUpdateChangesNothing ==
    [][(UpdateConfigWith(<<>>))
         => /\ getConfig(hp'[1]) = getConfig(hp[1])
            /\ hp'[1].axiosInstance = hp[1].axiosInstance
            /\ hp'[1].sender = hp[1].sender
            /\ hp' = hp
            /\ pool' = pool]_vars

C13_Witness ==
    /\ hp # <<>>
    /\ nOps > 0
    /\ hp[1].given = Account
    /\ hp[1] = NewInstance(Account, 2)
    /\ Len(pool) = 2
    /\ requests = <<>>

\* C14: a log() call whose POST was answered with HTTP 401 rejects with an
\* AuthenticationError after exactly one POST, in every state of the
\* instance, also after updateConfig changed timeout or baseUrl.
C14_UnauthorizedLog ==
    (logCall.pc = "done" /\ logCall.status = 401)
      => /\ logCall.error = "AuthenticationError"
         /\ logCall.posts = 1

\* C15: log() resolves only if its POST was answered with HTTP 200; a
\* validation failure, every other status (other 2xx included), a network
\* error or a timeout makes it reject; a call makes at most one POST.
C15_LogResolvesOnlyOn200 ==
    /\ Len(requests) <= nOps
    /\ logCall.posts <= 1
    /\ logCall.pc = "done"
         => /\ logCall.error = Null => (logCall.status = 200 /\ logCall.posts = 1)
            /\ (logCall.posts = 0 \/ logCall.status # 200) => logCall.error # Null

C15_Witness ==
    /\ logCall.pc = "done"
    /\ logCall.status = 200
    /\ logCall.posts = 1
    /\ logCall.error = Null
    /\ Len(requests) = MaxOps

\* C16: a log() call answered with HTTP 429 rejects with RateLimitError and
\* one answered with any status from 500 to 599 rejects with ServerError,
\* each after a single POST.
C16_RateLimitAndServerErrors ==
    logCall.pc = "done"
      => /\ logCall.status = 429
              => (logCall.error = "RateLimitError" /\ logCall.posts = 1)
         /\ logCall.status \in 500..599
              => (logCall.error = "ServerError" /\ logCall.posts = 1)

\* A constructor argument that is missing or lacks a non-empty apiKey or
\* orgId.
LacksAccount(config) ==
    IF config = NoConfig THEN TRUE
    ELSE \/ "apiKey" \notin DOMAIN config
         \/ "orgId" \notin DOMAIN config
         \/ config["apiKey"] = ""
         \/ config["orgId"] = ""

\* C17: constructing HuggingPlace without a configuration, or with apiKey or
\* orgId missing or empty, throws a ValidationError and creates nothing: no
\* instance, no HTTP client, no sender, no timer and no request; no instance
\* ever exists for such an argument.
C17_ConstructorRequiresAccount ==
    /\ [](\A i \in DOMAIN hp : ~LacksAccount(hp[i].given))
    /\ [][\A config \in ConstructorConfigs :
            (LacksAccount(config) /\ ConstructWith(config))
              => /\ proc'.thrown = "ValidationError"
                 /\ hp' = <<>>
                 /\ pool' = pool
                 /\ requests' = requests
                 /\ logCall' = logCall]_vars

C17_Witness ==
    /\ proc.thrown = "ValidationError"
    /\ proc.message = "Organization ID is required"
    /\ hp = <<>>
    /\ pool = <<DefaultSender>>
    /\ requests = <<>>

\* A constructor argument with a mode other than 'prod' and 'dev', or with a
\* timeout that is not a positive number.
BadModeOrTimeout(config) ==
    IF config = NoConfig THEN FALSE
    ELSE \/ "mode" \in DOMAIN config /\ config["mode"] \notin {"prod", "dev"}
         \/ "timeout" \in DOMAIN config
              /\ ~(config["timeout"].num /\ config["timeout"].n > 0)

\* C18: no instance is ever constructed from an argument whose mode is
\* neither 'prod' nor 'dev' or whose timeout is not a positive number.
C18_ConstructorRejectsBadValues ==
    \A i \in DOMAIN hp : ~BadModeOrTimeout(hp[i].given)

\* The requests a step issues.
Issued == {requests'[k] : k \in (Len(requests) + 1)..Len(requests')}

\* C19: every request issued for the instance (by log() or by one of its
\* senders) carries Content-Type: application/json and Authorization: Bearer
\* <apiKey> for the apiKey in the instance's configuration at that moment.
C19_RequestsCarryCurrentKey ==
    [][\A r \in Issued :
          r.inst = 1
            => r.headers = [contentType |-> JSON,
                            authorization |-> Bearer(hp'[1].config.apiKey)]]_vars

\* The trace records the senders of the instance hold or have posted.
InstanceRecords ==
    UNION {{pool[p].traceBatch[k] : k \in DOMAIN pool[p].traceBatch} :
             p \in {q \in DOMAIN pool : pool[q].owner = 1}}
      \cup UNION {{requests[k].body[j] : j \in DOMAIN requests[k].body} :
                    k \in {q \in DOMAIN requests : requests[q].path # LOG_PATH}}

\* C20: the payload of every log() POST carries org_id and mode of the
\* configuration current at the call, and every record HuggingPlace.sendTrace
\* hands to its sender carries them as metadata.orgId and metadata.mode,
\* whatever org_id, mode or metadata the caller supplied; the caller's other
\* metadata is kept.
C20_AccountContextAttached ==
    /\ [](\A r \in InstanceRecords :
             /\ r.metadata.orgId \in {"o1", "o2"}
             /\ r.metadata.mode \in {"prod", "dev", ""})
    /\ [][\A options \in LogInputs :
            (LogWith(options) /\ Len(requests') > Len(requests))
              => /\ Newest(requests').path = LOG_PATH
                 /\ Newest(requests').body[1].org_id = hp[1].config.orgId
                 /\ Newest(requests').body[1].mode = hp[1].config.mode]_vars
    /\ [][\A trace \in ClientTraces(nOps + 1) :
            HpSendTraceWith(trace)
              => LET held == pool'[hp[1].sender].traceBatch
                     sent == IF Len(requests') > Len(requests)
                             THEN Newest(requests').body ELSE held
                     r == Newest(sent)
                 IN  /\ r.id = trace.id
                     /\ r.metadata.orgId = hp[1].config.orgId
                     /\ r.metadata.mode = hp[1].config.mode
                     /\ "metadata" \in DOMAIN trace
                          => r.metadata.user = trace.metadata.user]_vars

C20_Witness ==
    /\ \E k \in DOMAIN requests :
          /\ requests[k].path = LOG_PATH
          /\ "response" \notin DOMAIN requests[k].body[1]
          /\ requests[k].body[1].org_id = "o2"
    /\ \E k \in DOMAIN requests :
          /\ requests[k].path = BATCH_PATH
          /\ \E j \in DOMAIN requests[k].body :
                /\ "user" \in DOMAIN requests[k].body[j].metadata
                /\ requests[k].body[j].metadata.orgId = "o2"

\* The payload of the POST a log() call made.
Posted(q) == q[Len(q)].body[1]

\* log(options) passed validation and made its POST.
LogPosts(options) ==
    /\ LogWith(options)
    /\ Len(requests') = Len(requests) + 1

\* C21: log() sends ai_response equal to response, and response itself, when
\* response is given and ai_response is not; it sends user_meta_data equal to
\* userMetadata when userMetadata is given and user_meta_data is not; an
\* ai_response or user_meta_data the caller gave is sent as given.
C21_AliasesNormalized ==
    [][\A options \in LogFieldInputs \ {NoOptions} :
          LogPosts(options) =>
            LET payload == Posted(requests')
            IN  /\ (Has(options, "response") /\ ~Has(options, "ai_response"))
                      => /\ Has(payload, "ai_response")
                         /\ payload.ai_response = options.response
                         /\ payload.response = options.response
                /\ (Has(options, "userMetadata") /\ ~Has(options, "user_meta_data"))
                      => /\ Has(payload, "user_meta_data")
                         /\ payload.user_meta_data = options.userMetadata
                /\ Has(options, "ai_response")
                      => payload.ai_response = options.ai_response
                /\ Has(options, "user_meta_data")
                      => payload.user_meta_data = options.user_meta_data]_vars

\* C22: a log() call given metadata and no metaData POSTs a payload whose
\* metaData equals the metadata given.
C22_MetadataMapped ==
    [][\A options \in LogFieldInputs \ {NoOptions} :
          (/\ LogPosts(options)
           /\ Has(options, "metadata")
           /\ ~Has(options, "metaData"))
            => /\ Has(Posted(requests'), "metaData")
               /\ Posted(requests').metaData = options.metadata]_vars

\* token_count is present and is not a non-negative number.
BadTokenCount(options) ==
    /\ Has(options, "token_count")
    /\ (~options.token_count.num \/ options.token_count.n < 0)

\* C23: log() rejects with ValidationError, without a POST, exactly when its
\* options are missing or token_count is present and not a non-negative
\* number; every other call, whatever fields it lacks and whatever the
\* format of response_time, is sent.
C23_PermissiveValidation ==
    [][\A options \in LogFieldInputs :
          LogWith(options) =>
            IF options = NoOptions \/ BadTokenCount(options)
            THEN /\ logCall'.error = "ValidationError"
                 /\ requests' = requests
            ELSE /\ logCall'.error = Null
                 /\ Len(requests') = Len(requests) + 1]_vars

\* The URL a request goes to: its base URL followed by its path.
Url(r) == <<r.baseURL, r.path>>

\* The base URL the instance is configured with.
ConfiguredBaseUrl(h) ==
    IF Has(h.config, "baseUrl") THEN h.config.baseUrl ELSE DEFAULT_BASE_URL

\* Where the configuration of the instance places the POST of a single
\* record and the POST of a batch.
ConfiguredUrl(h, path) ==
    IF path = TRACE_PATH /\ Has(h.config, "traceEndpoint")
      THEN <<h.config.traceEndpoint, "">>
    ELSE IF path = BATCH_PATH /\ Has(h.config, "traceBatchEndpoint")
      THEN <<h.config.traceBatchEndpoint, "">>
    ELSE <<ConfiguredBaseUrl(h), path>>

\* C24: every POST a sendTrace call of the instance makes goes to the
\* configured traceEndpoint (single record) or traceBatchEndpoint (batch) when
\* they are configured, at construction or by updateConfig, and to
\* {baseUrl}/api/traces or {baseUrl}/api/traces/batch of the configured
\* baseUrl otherwise.
C24_TraceEndpoints ==
    [][HpSendTrace =>
         \A i \in (Len(requests) + 1)..Len(requests') :
            Url(requests'[i]) =
              ConfiguredUrl(hp[1],
                            IF pool[hp[1].sender].senderConfig.batchSize > 1
                            THEN BATCH_PATH ELSE TRACE_PATH)]_vars

\* C25: in a traceMultiStepFlow a step starts only when the step before it
\* has handed its record to the sender and returned; when a step's function
\* threw, no later step starts and the flow's call rejects.
C25_FlowStopsAtThrow ==
    [][\A j \in DOMAIN steps :
          (StepReturns(j) /\ steps[j].wrapper = "flow") =>
             /\ nSteps' > nSteps => steps[j].handed = 1
             /\ steps[j].func # "returns"
                  => /\ nSteps' = nSteps
                     /\ steps[j].outcome = "rejected"]_vars

\* m is d overridden key by key by c: every key of either, with the value of
\* c where c has the key and the value of d elsewhere.
Overridden(m, d, c) ==
    /\ DOMAIN m = DOMAIN d \cup DOMAIN c
    /\ \A k \in DOMAIN m : m[k] = IF k \in DOMAIN c THEN c[k] ELSE d[k]

\* The value of an object argument the call may leave out.
Given(options, k) == IF Has(options, k) THEN options[k] ELSE <<>>

C27_ConfigWithoutKey ==
    hp # <<>> => ~Has(getConfig(hp[1]), "apiKey")

\* The record submitted by call id is in the live batch or in a send that has
\* not ended.
Pending(id) ==
    \/ id \in Ids(traceBatch)
    \/ \E i \in DOMAIN sends :
          id \in Ids(sends[i].payload) /\ sends[i].state \notin Terminal

\* The send that carries the record submitted by call id has ended in
\* success or by dropping its payload.
Ended(id) ==
    \E i \in DOMAIN sends :
       id \in Ids(sends[i].payload) /\ sends[i].state \in {"success", "dropped"}

\* C28: every record sendTrace accepted, whether it waits in the live batch,
\* is being POSTed or waits for a retry, eventually reaches success or is
\* dropped, given that timers fire and that HTTP attempts and backoff waits
\* end.
C28_RecordsReachOutcome ==
    \A id \in 1..MaxCalls : Pending(id) ~> Ended(id)

\* A batch flushed by the idle timer succeeded at its second attempt.
C28_Witness ==
    \E i \in DOMAIN sends :
       /\ sends[i].cause = "timer"
       /\ sends[i].retries = 1
       /\ sends[i].state = "success"

\* The places that hold the record submitted by call id: 0 for the live
\* batch tb, i for the send number i of ss.
Owners(tb, ss, id) ==
    {p \in {0} : id \in Ids(tb)}
      \cup {i \in DOMAIN ss : id \in Ids(ss[i].payload)}

\* The records of q are in submission order, none of them twice.
InOrder(q) == \A k \in 1..(Len(q) - 1) : q[k].id < q[k + 1].id

\* C29: a record sendTrace accepted is held by exactly one place, the live
\* batch or one in-flight send, from its acceptance until its send has ended;
\* it is never in two batches, the payload of a send never changes, a record
\* leaves the sender only with a send that POSTed it and ended, and the records
\* of every batch are in submission order.
C29_SingleOwner ==
    /\ [](/\ \A id \in 1..MaxCalls :
                Cardinality(Owners(traceBatch, sends, id)) <= 1
          /\ InOrder(traceBatch)
          /\ \A i \in DOMAIN sends :
                InOrder(sends[i].payload) /\ sends[i].posts >= 1)
    /\ [][SendTraceCall =>
             \/ traceBatch' = traceBatch /\ sends' = sends
             \/ Cardinality(Owners(traceBatch', sends', nCalls + 1)) = 1]_vars
    /\ [][\A id \in 1..MaxCalls :
             Owners(traceBatch, sends, id) # {} =>
                \/ \E i \in DOMAIN sends, k \in DOMAIN sends' :
                      /\ id \in Ids(sends[i].payload)
                      /\ sends'[k].payload = sends[i].payload
                \/ /\ id \in Ids(traceBatch)
                   /\ Owners(traceBatch', sends', id) # {}
                \/ \E i \in DOMAIN sends :
                      /\ id \in Ids(sends[i].payload)
                      /\ sends[i].state \in {"success", "dropped"}
                      /\ Owners(traceBatch', sends', id) = {}]_vars

\* The first record is in a batch in flight while the second one waits in
\* the live batch.
C29_Witness ==
    /\ Len(sends) = 1
    /\ sends[1].endpoint = "batch"
    /\ sends[1].state = "backoff"
    /\ Ids(sends[1].payload) = {1}
    /\ Ids(traceBatch) = {2}

\* C30: flushBatch on an empty live batch, whether a caller or a stale idle
\* timer runs it, starts no send and leaves the batch empty; no send to the
\* batch endpoint carries an empty array.
C30_EmptyBatchNotFlushed ==
    /\ [](\A i \in DOMAIN sends :
             sends[i].endpoint = "batch" => sends[i].payload # <<>>)
    /\ [][((FlushBatchCall \/ TimerFires) /\ traceBatch = <<>>)
            => /\ sends' = sends
               /\ traceBatch' = <<>>
               /\ sinceFlush' = sinceFlush]_vars

\* The idle timer, left armed by a flushBatch call that sent the batch, has
\* fired on the empty batch.
C30_Witness ==
    /\ Len(sends) = 1
    /\ sends[1].cause = "manual"
    /\ traceBatch = <<>>
    /\ batchTimeout.handle /\ ~batchTimeout.armed
    /\ batchTimeout.waited >= batchTimeout.delay
    /\ nCalls = 1

\* C31: with batchSize = N > 1 a sendTrace call never makes the live batch
\* longer than N, and between calls the live batch holds fewer than N records.
C31_BufferBounded ==
    /\ [](Batching => Len(traceBatch) < cfg.batchSize)
    /\ [][(SendTraceCall /\ Batching) => Len(traceBatch) + 1 <= cfg.batchSize]_vars

\* The batch is one record short of full.
C31_Witness ==
    /\ cfg.batchSize = MaxBatchSize
    /\ Len(traceBatch) = MaxBatchSize - 1

\* C32: at most one idle timer of the sender is pending; a sendTrace call
\* that leaves the batch short of full cancels the pending timer and starts a
\* fresh one of batchTimeout ms, and one that fills the batch leaves no timer
\* pending after its flush.
C32_OneIdleTimer ==
    /\ [](/\ batchTimeout.pending <= 1
          /\ batchTimeout.pending = 1 <=> batchTimeout.armed)
    /\ [][(SendTraceCall /\ Len(traceBatch') > Len(traceBatch))
            => /\ batchTimeout'.armed
               /\ batchTimeout'.waited = 0
               /\ batchTimeout'.delay = cfg.batchTimeout
               /\ batchTimeout'.pending = 1]_vars
    /\ [][(SendTraceCall /\ Len(sends') > Len(sends) /\ Batching)
            => batchTimeout'.pending = 0]_vars

\* A call has replaced a timer that had run for a while by a fresh one.
C32_Witness ==
    /\ Len(traceBatch) = 2
    /\ firstAge > 0
    /\ batchTimeout.armed
    /\ batchTimeout.waited = 0

\* C36: whenever the live batch holds records between calls, the idle timer
\* of the sender is pending.
C36_TimerCoversBuffer ==
    traceBatch # <<>> => (batchTimeout.armed /\ batchTimeout.pending = 1)

\* A flushBatch call and a later submit: the batch holds the later record
\* only and the timer runs.
C36_Witness ==
    /\ Len(sends) = 1
    /\ sends[1].cause = "manual"
    /\ Ids(traceBatch) = {2}
    /\ batchTimeout.armed

\* The send s carried by the other transport: a batch send as a
\* single-record send and the reverse, with that transport's request timeout.
Mirror(s) ==
    LET other == IF s.endpoint = "batch" THEN "single" ELSE "batch"
    IN  [s EXCEPT !.endpoint = other, !.timeout = RequestTimeout(other)]

\* C33: sendBatchWithRetry and sendTraceWithRetry treat every answer to a
\* POST alike (success on 201 only, the same bound on retries, the same
\* backoff delay, null when dropped, no exception); a batch send differs from
\* a single one in its endpoint and in its request timeout, batchTimeoutMs
\* (30000 ms by default) instead of timeout.
C33_TransportsAlike ==
    \A i \in DOMAIN sends :
       /\ sends[i].timeout =
            IF sends[i].endpoint = "batch" THEN DefaultBatchTimeoutMs
            ELSE DefaultTimeout
       /\ sends[i].state # "threw"
       /\ sends[i].state = "success" => sends[i].postsAt201 >= 1
       /\ sends[i].state = "dropped" => sends[i].result = Null
       /\ sends[i].state = "posting" =>
            \A resp \in HttpOutcomes :
               AfterResponse(Mirror(sends[i]), resp)
                  = Mirror(AfterResponse(sends[i], resp))

\* A batch was dropped after the default number of retries.
C33_Witness ==
    \E i \in DOMAIN sends :
       /\ sends[i].endpoint = "batch"
       /\ sends[i].timeout = DefaultBatchTimeoutMs
       /\ sends[i].state = "dropped"
       /\ sends[i].posts = DefaultMaxRetries + 1

\* C34: the configuration of the instance is valid after construction and
\* after every updateConfig call: apiKey and orgId are non-empty, mode is
\* prod or dev and timeout is a positive number.
C34_ConfigStaysValid ==
    hp # <<>> =>
       LET config == hp[1].config
       IN  /\ config.apiKey # ""
           /\ config.orgId # ""
           /\ config.mode \in {"prod", "dev"}
           /\ config.timeout.num /\ config.timeout.n > 0

\* C35: after every updateConfig call the HTTP client and the sender of the
\* instance use the base URL, request timeout, batchSize, batchTimeout,
\* maxRetries and silent that getConfig() reports.
C35_EffectiveSettings ==
    hp # <<>> =>
       LET h == hp[1]
           config == getConfig(h)
           client == h.axiosInstance
           senderConfig == pool[h.sender].senderConfig
       IN  /\ client.baseURL = ConfiguredBaseUrl(h)
           /\ client.timeout = config.timeout
           /\ senderConfig.baseUrl = ConfiguredBaseUrl(h)
           /\ senderConfig.timeout = config.timeout
           /\ senderConfig.batchSize = config.traceBatchSize
           /\ senderConfig.batchTimeout = config.traceBatchTimeout
           /\ senderConfig.maxRetries = config.traceMaxRetries
           /\ senderConfig.silent = config.silent

\* The senders that hold the record submitted by call id in their batch.
Holders(id) == {p \in DOMAIN pool : id \in Ids(pool[p].traceBatch)}

\* The POSTs that carry the record submitted by call id.
Carriers(id) == {k \in DOMAIN requests : id \in Ids(requests[k].body)}

\* C37: a record buffered in the sender of the instance when updateConfig
\* replaces that sender stays in the replaced sender, whose idle timer stays
\* pending and flushes it to the transport; the new sender starts empty, and
\* no record is held by two senders or POSTed twice.
C37_ReplacedSenderFlushes ==
    /\ \A id \in 1..MaxOps : (Holders(id) # {}) ~> (Carriers(id) # {})
    /\ [](\A id \in 1..MaxOps :
             Cardinality(Holders(id)) + Cardinality(Carriers(id)) <= 1)
    /\ [][ReplaceSender
            => /\ Len(pool') = Len(pool) + 1
               /\ SubSeq(pool', 1, Len(pool)) = pool
               /\ pool'[Len(pool')].traceBatch = <<>>
               /\ hp'[1].sender = Len(pool')]_vars

\* The replaced sender has POSTed the record it held while the new sender
\* holds a later one.
C37_Witness ==
    /\ Len(pool) = 3
    /\ hp[1].sender = 3
    /\ Carriers(1) # {} /\ requests[1].headers = pool[2].senderConfig.headers
    /\ pool[2].traceBatch = <<>>
    /\ Holders(3) = {3}

\* C38: a logWithTiming call that has ended called responseGenerator once,
\* made one log() call and at most one POST.
C38_OneLogPerTimedCall ==
    timed.pc = "done"
      => /\ timed.generated = 1
         /\ timed.logs = 1
         /\ timed.posts <= 1

\* C39: a logWithTiming call whose generator threw E rejects with E, also
\* when the log() call of the error entry failed, and the error entry it
\* logs has metaData.error = true whatever the options.
C39_GeneratorErrorRethrown ==
    /\ []((timed.pc = "done" /\ timed.gen = "throwsE")
            => (timed.outcome = "rejected" /\ timed.value = "E"))
    /\ [][\A options \in TimedOptions :
            (LogWithTimingWith(options, "throwsE") /\ Len(requests') > Len(requests))
              => /\ Has(Posted(requests'), "metaData")
                 /\ Has(Posted(requests').metaData, "error")
                 /\ Posted(requests').metaData.error = TRUE]_vars

\* Through what a record was submitted: an instance, or 0 for the exported
\* sendTrace.
Via(trace) == IF Has(trace, "via") THEN trace.via ELSE 0

\* Every record waits in, and was POSTed by, a sender made for what it was
\* submitted through.
NothingShared ==
    /\ \A p \in DOMAIN pool : \A k \in DOMAIN pool[p].traceBatch :
          Via(pool[p].traceBatch[k]) = pool[p].owner
    /\ \A q \in DOMAIN requests : \A k \in DOMAIN requests[q].body :
          Via(requests[q].body[k]) = requests[q].inst

\* A submit changes the buffer and the timer of no sender made for another.
SubmitsStayLocal ==
    /\ \A i \in DOMAIN hp : \A trace \in SubmittedTraces(i, nOps + 1) :
          InstSendTraceWith(i, trace)
            => /\ \A p \in DOMAIN pool : pool[p].owner # i => pool'[p] = pool[p]
               /\ \A q \in DOMAIN requests' :
                     q > Len(requests) => requests'[q].inst = i
    /\ DefaultSendTrace
         => /\ \A p \in DOMAIN pool : pool[p].owner # 0 => pool'[p] = pool[p]
            /\ \A q \in DOMAIN requests' :
                  q > Len(requests) => requests'[q].inst = 0

\* Every record submitted through an instance was POSTed with the
\* Authorization header and the base URL of that instance.
PostedAsInstance ==
    \A q \in DOMAIN requests : \A k \in DOMAIN requests[q].body :
       LET i == Via(requests[q].body[k])
       IN  i \in DOMAIN hp
             => /\ Has(requests[q].headers, "authorization")
                /\ requests[q].headers.authorization = Bearer(hp[i].config.apiKey)
                /\ requests[q].baseURL = hp[i].baseUrl

\* C40: the senders of two instances and the default sender share no buffer
\* and no timer: a record is POSTed only by a sender of what it was
\* submitted through, with that instance's Authorization header and base
\* URL, and a submit changes no other sender.
C40_SendersIsolated ==
    /\ []NothingShared
    /\ [][SubmitsStayLocal]_vars
    /\ []PostedAsInstance

====
